---- MODULE Spec2Model ----
(***************************************************************************)
(* Annotation engine of setting_sheet_auto: the annotation data model      *)
(* (annotations.py), the tool state (annotation_tools.py), the gesture     *)
(* controller (annotation_controller.py) and the scene's coordinate        *)
(* mapping, redraw, deletion and drag synchronisation                      *)
(* (graphics_annotations.py), wired as in main.py.                         *)
(*                                                                         *)
(* Numbers: Python floats are modelled as exact rationals <<num, den>>     *)
(* (den > 0, lowest terms), so "equal within tolerance" in the program is  *)
(* plain equality here.  The one irrational operation, the square root     *)
(* used to normalise a direction vector, is rounded down to a multiple of  *)
(* 1/SqrtScale.                                                            *)
(***************************************************************************)
EXTENDS Integers, Sequences, FiniteSets, TLC

\* The attribute names of the objects of the model.  Records list their fields
\* in this order throughout.
AttributeNames ==
    DOMAIN [x |-> 0, y |-> 0, id |-> 0, kind |-> 0, label |-> 0, visible |-> 0,
            z_index |-> 0, position |-> 0, start |-> 0, end |-> 0, shape_type |-> 0,
            points |-> 0, text |-> 0, color |-> 0, font_size |-> 0, parent_id |-> 0,
            line_width |-> 0, head_size |-> 0, text_size |-> 0, stroke_color |-> 0,
            fill_color |-> 0, stroke_width |-> 0, active_tool |-> 0, arrow_color |-> 0,
            text_color |-> 0, main_point |-> 0, texts |-> 0, arrows |-> 0,
            shapes |-> 0, l |-> 0, t |-> 0, r |-> 0, b |-> 0, w |-> 0, h |-> 0,
            cls |-> 0, ann |-> 0, pos |-> 0, geom |-> 0, z |-> 0, movable |-> 0,
            selected |-> 0, editing |-> 0, in_scene |-> 0, is_drawing |-> 0,
            start_scene_pos |-> 0, preview_item |-> 0, c |-> 0, aset |-> 0,
            redrawn |-> 0, prompt |-> 0, items |-> 0, item |-> 0, op |-> 0,
            button |-> 0, hit |-> 0, modifier |-> 0, reply |-> 0, arg |-> 0,
            to_controller |-> 0, path |-> 0, down |-> 0, press_pos |-> 0, init |-> 0,
            ok |-> 0, before |-> 0, corner |-> 0, resize |-> 0]

None == "None"

\* Optional[...] holding an object: Nothing, or Some(x)
Nothing == <<>>
Some(x) == <<x>>

(***************************************************************************)
(* Rational arithmetic                                                     *)
(***************************************************************************)
Abs(n) == IF n < 0 THEN -n ELSE n

RECURSIVE GCD(_, _)
GCD(a, b) == IF b = 0 THEN a ELSE GCD(b, a % b)

\* n/d in lowest terms for d > 0, g their greatest common divisor
RLowest(n, d, g) == <<n \div g, d \div g>>
Sign(d) == IF d < 0 THEN -1 ELSE 1
RNorm(n, d) == RLowest(Sign(d) * n, Abs(d), GCD(Abs(n), Abs(d)))

R(n) == <<n, 1>>
RLcm(a, b) == (a[2] \div GCD(a[2], b[2])) * b[2]
\* a + b over the common denominator l
RAddOver(a, b, l) == RNorm(a[1] * (l \div a[2]) + b[1] * (l \div b[2]), l)
RAdd(a, b) ==
    IF a[2] = b[2] THEN RNorm(a[1] + b[1], a[2]) ELSE RAddOver(a, b, RLcm(a, b))
RNeg(a) == <<-a[1], a[2]>>
RSub(a, b) == RAdd(a, RNeg(b))
NonZero(g) == IF g = 0 THEN 1 ELSE g
\* a * b with the common factors h1 of a[1], b[2] and h2 of b[1], a[2] removed
RMulBy(a, b, h1, h2) ==
    RNorm((a[1] \div h1) * (b[1] \div h2), (a[2] \div h2) * (b[2] \div h1))
RMul(a, b) ==
    IF a[1] = 0 \/ b[1] = 0 THEN R(0)
    ELSE RMulBy(a, b, NonZero(GCD(Abs(a[1]), b[2])), NonZero(GCD(Abs(b[1]), a[2])))
\* a is in lowest terms, and so is its inverse
RInv(a) == IF a[1] < 0 THEN <<-a[2], -a[1]>> ELSE <<a[2], a[1]>>
RDiv(a, b) == RMul(a, RInv(b))
RLtOver(a, b, l) == a[1] * (l \div a[2]) < b[1] * (l \div b[2])
RLt(a, b) == IF a[2] = b[2] THEN a[1] < b[1] ELSE RLtOver(a, b, RLcm(a, b))
RLe(a, b) == a = b \/ RLt(a, b)
RAbs(a) == <<Abs(a[1]), a[2]>>
RMin(a, b) == IF RLt(b, a) THEN b ELSE a
RMax(a, b) == IF RLt(a, b) THEN b ELSE a
\* a is in lowest terms: an even numerator goes with an odd denominator
RHalf(a) == IF a[1] % 2 = 0 THEN <<a[1] \div 2, a[2]>> ELSE <<a[1], a[2] * 2>>
IsZero(a) == a[1] = 0

\* floor(sqrt(n)) for a natural n
RECURSIVE ISqrtFrom(_, _, _)
ISqrtFrom(n, lo, hi) ==
    IF lo >= hi THEN lo
    ELSE LET mid == (lo + hi + 1) \div 2
         IN  IF mid * mid <= n THEN ISqrtFrom(n, mid, hi) ELSE ISqrtFrom(n, lo, mid - 1)
ISqrt(n) == IF n <= 0 THEN 0 ELSE ISqrtFrom(n, 0, IF n < 46340 THEN n ELSE 46340)

\* precision of the rounded square root: results are multiples of 1/SqrtScale
SqrtScale == 1

\* (dx*dx + dy*dy) ** 0.5, exact whenever the root is a multiple of 1/SqrtScale
RSqrt(a) == RNorm(ISqrt((a[1] * SqrtScale * SqrtScale) \div a[2]), SqrtScale)

(***************************************************************************)
(* annotations.py: the data model                                          *)
(***************************************************************************)
ShapeType == {"RECT", "TRIANGLE", "CIRCLE", "ELLIPSE", "STAR", "POLYGON", "DATUM_L"}

Point2D(x, y) == [x |-> x, y |-> y]

\* TextAnnotation(position, text, color, font_size) with a fresh uuid;
\* __post_init__ sets kind and the default label
TextAnnotation(uuid, position, text, color, font_size) ==
    [id |-> uuid, kind |-> "TEXT", label |-> "TEXT", visible |-> TRUE, z_index |-> 0,
     position |-> position, text |-> text, color |-> color, font_size |-> font_size,
     parent_id |-> None]

ArrowAnnotation(uuid, start, end, text, color, line_width, head_size, text_size) ==
    [id |-> uuid, kind |-> "ARROW", label |-> "ARROW", visible |-> TRUE, z_index |-> 0,
     start |-> start, end |-> end, text |-> text, color |-> color,
     line_width |-> line_width, head_size |-> head_size, text_size |-> text_size]

ShapeAnnotation(uuid, shape_type, points, stroke_color, fill_color, stroke_width) ==
    [id |-> uuid, kind |-> "SHAPE", label |-> "SHAPE_" \o shape_type, visible |-> TRUE,
     z_index |-> 0, shape_type |-> shape_type, points |-> points,
     stroke_color |-> stroke_color, fill_color |-> fill_color,
     stroke_width |-> stroke_width]

AnnotationSet == [main_point |-> Nothing, texts |-> <<>>, arrows |-> <<>>, shapes |-> <<>>]

\* defaults of the dataclass fields
DefaultHeadSize == <<1, 50>>
DefaultLineWidth == <<3, 2>>
DefaultTextSize == 30

\* dict.get(key, default)
Get(data, key, default) == IF key \in DOMAIN data THEN data[key] ELSE default

TextAnnotation_to_dict(self) ==
    [id |-> self.id, kind |-> self.kind, label |-> self.label, visible |-> self.visible,
     z_index |-> self.z_index,
     position |-> [x |-> self.position.x, y |-> self.position.y],
     text |-> self.text, color |-> self.color, font_size |-> self.font_size,
     parent_id |-> self.parent_id]

\* from_dict dropping the parent link (the field was added to the format later)
TextAnnotation_from_dict_NoParent(data, uuid) ==
    LET ann == TextAnnotation(uuid,
                   Point2D(data["position"]["x"], data["position"]["y"]),
                   Get(data, "text", <<>>), Get(data, "color", "Red"),
                   Get(data, "font_size", 30))
    IN  [ann EXCEPT !.id = Get(data, "id", ann.id),
                    !.label = Get(data, "label", ann.label),
                    !.visible = Get(data, "visible", TRUE),
                    !.z_index = Get(data, "z_index", 0)]

TextAnnotation_from_dict(data, uuid) ==
    LET ann == TextAnnotation(uuid,
                   Point2D(data["position"]["x"], data["position"]["y"]),
                   Get(data, "text", <<>>), Get(data, "color", "Red"),
                   Get(data, "font_size", 30))
    IN  [ann EXCEPT !.id = Get(data, "id", ann.id),
                    !.label = Get(data, "label", ann.label),
                    !.visible = Get(data, "visible", TRUE),
                    !.z_index = Get(data, "z_index", 0),
                    !.parent_id = Get(data, "parent_id", None)]

ArrowAnnotation_to_dict(self) ==
    [id |-> self.id, kind |-> self.kind, label |-> self.label, visible |-> self.visible,
     z_index |-> self.z_index,
     start |-> [x |-> self.start.x, y |-> self.start.y],
     end |-> [x |-> self.end.x, y |-> self.end.y],
     text |-> self.text, color |-> self.color, line_width |-> self.line_width,
     head_size |-> self.head_size, text_size |-> self.text_size]

ArrowAnnotation_from_dict(data, uuid) ==
    LET ann == ArrowAnnotation(uuid,
                   Point2D(data["start"]["x"], data["start"]["y"]),
                   Point2D(data["end"]["x"], data["end"]["y"]),
                   Get(data, "text", <<>>), Get(data, "color", "Red"),
                   Get(data, "line_width", DefaultLineWidth),
                   Get(data, "head_size", DefaultHeadSize),
                   Get(data, "text_size", DefaultTextSize))
    IN  [ann EXCEPT !.id = Get(data, "id", ann.id),
                    !.label = Get(data, "label", ann.label),
                    !.visible = Get(data, "visible", TRUE),
                    !.z_index = Get(data, "z_index", 0)]

ShapeAnnotation_to_dict(self) ==
    [id |-> self.id, kind |-> self.kind, label |-> self.label, visible |-> self.visible,
     z_index |-> self.z_index, shape_type |-> self.shape_type,
     points |-> [i \in 1..Len(self.points) |->
                    [x |-> self.points[i].x, y |-> self.points[i].y]],
     stroke_color |-> self.stroke_color, fill_color |-> self.fill_color,
     stroke_width |-> self.stroke_width]

ShapeAnnotation_from_dict(data, uuid) ==
    LET pts == Get(data, "points", <<>>)
        points == [i \in 1..Len(pts) |-> Point2D(pts[i]["x"], pts[i]["y"])]
        shape_type == Get(data, "shape_type", "RECT")
        ann == ShapeAnnotation(uuid, shape_type, points,
                   Get(data, "stroke_color", "Red"), Get(data, "fill_color", None),
                   Get(data, "stroke_width", DefaultLineWidth))
    IN  [ann EXCEPT !.id = Get(data, "id", ann.id),
                    !.label = Get(data, "label", ann.label),
                    !.visible = Get(data, "visible", TRUE),
                    !.z_index = Get(data, "z_index", 0)]

AnnotationSet_to_dict(self) ==
    [main_point |-> IF self.main_point # Nothing
                    THEN Some(TextAnnotation_to_dict(self.main_point[1])) ELSE Nothing,
     texts |-> [i \in 1..Len(self.texts) |-> TextAnnotation_to_dict(self.texts[i])],
     arrows |-> [i \in 1..Len(self.arrows) |-> ArrowAnnotation_to_dict(self.arrows[i])],
     shapes |-> [i \in 1..Len(self.shapes) |-> ShapeAnnotation_to_dict(self.shapes[i])]]

\* every object built while loading gets a fresh uuid, which the stored id
\* then replaces
AnnotationSet_from_dict(data, uuid) ==
    LET mp == Get(data, "main_point", Nothing)
        td == Get(data, "texts", <<>>)
        ad == Get(data, "arrows", <<>>)
        sd == Get(data, "shapes", <<>>)
    IN  [main_point |-> IF mp # Nothing
                        THEN Some(TextAnnotation_from_dict(mp[1], uuid)) ELSE Nothing,
         texts |-> [i \in 1..Len(td) |-> TextAnnotation_from_dict(td[i], uuid)],
         arrows |-> [i \in 1..Len(ad) |->
                        ArrowAnnotation_from_dict(ad[i], uuid)],
         shapes |-> [i \in 1..Len(sd) |->
                        ShapeAnnotation_from_dict(sd[i], uuid)]]

(***************************************************************************)
(* State                                                                   *)
(***************************************************************************)
VARIABLES
    store,        \* the AnnotationSet instances alive: instance id -> contents
    win_set,      \* main window: self.annotation_set (an instance id)
    ctrl_set,     \* AnnotationController.annotation_set
    scene_set,    \* AnnotationScene._annotation_set
    pixmap_item,  \* AnnotationScene._pixmap_item: Nothing or Some([w, h])
    image_rect,   \* AnnotationScene._image_rect
    scene_rect,   \* QGraphicsScene.sceneRect(): [l, t, r, b]
    tool_state,   \* AnnotationToolState
    ctrl,         \* AnnotationController: _is_drawing, _start_scene_pos, _preview_item
    items,        \* the scene's items that carry an annotation, in insertion order
    grab,         \* the pressed mouse button and Qt's mouse grabber item, press to release
    ev,           \* the last event delivered and what its handler showed the user
    probe         \* argument and result of the last serialisation round trip

vars == <<store, win_set, ctrl_set, scene_set, pixmap_item, image_rect, scene_rect,
          tool_state, ctrl, items, grab, ev, probe>>

\* uuid4(): a value no annotation of the set carries or refers to; the k-th
\* such value of the table, for the k-th draw of one handler
UuidTable == <<"u1", "u2", "u3", "u4", "u5", "u6", "u7", "u8", "u9", "u10">>

UsedIds(aset) ==
    {aset.texts[i].id : i \in 1..Len(aset.texts)}
    \cup {aset.texts[i].parent_id : i \in 1..Len(aset.texts)}
    \cup {aset.arrows[i].id : i \in 1..Len(aset.arrows)}
    \cup {aset.shapes[i].id : i \in 1..Len(aset.shapes)}
    \cup (IF aset.main_point = Nothing THEN {} ELSE {aset.main_point[1].id})

RECURSIVE FreeFrom(_, _, _)
FreeFrom(used, n, k) ==
    IF n > Len(UuidTable) THEN 0
    ELSE IF UuidTable[n] \in used THEN FreeFrom(used, n + 1, k)
    ELSE IF k = 1 THEN n
    ELSE FreeFrom(used, n + 1, k - 1)

HasFree(aset, k) == FreeFrom(UsedIds(aset), 1, k) # 0

uuid4(aset, k) == UuidTable[FreeFrom(UsedIds(aset), 1, k)]

\* a handler that draws `need` ids finds them in the table
CanCreate(aset, need) == HasFree(aset, need)

QPointF(x, y) == [x |-> x, y |-> y]
QRectF(l, t, r, b) == [l |-> l, t |-> t, r |-> r, b |-> b]
RectW(r) == RSub(r.r, r.l)
RectH(r) == RSub(r.b, r.t)
PAdd(p, q) == QPointF(RAdd(p.x, q.x), RAdd(p.y, q.y))
PSub(p, q) == QPointF(RSub(p.x, q.x), RSub(p.y, q.y))
\* QPointF.dotProduct(p, p), the squared Euclidean length
lengthSquared(p) == RAdd(RMul(p.x, p.x), RMul(p.y, p.y))
manhattanLength(p) == RAdd(RAbs(p.x), RAbs(p.y))

\* QGraphicsPixmapItem.boundingRect(): (0, 0, width, height) of the pixmap
PixmapRect(pix) == QRectF(R(0), R(0), R(pix[1].w), R(pix[1].h))

(***************************************************************************)
(* graphics_annotations.py: coordinate mapping                             *)
(***************************************************************************)
has_image(pix) == pix # Nothing

\* rect: the pixmap item's rectangle in the scene
norm_to_scene_in(rect, p) ==
    QPointF(RAdd(rect.l, RMul(p.x, RectW(rect))),
            RAdd(rect.t, RMul(p.y, RectH(rect))))
norm_to_scene(pix, p) ==
    IF pix = Nothing THEN QPointF(R(0), R(0))
    ELSE norm_to_scene_in(PixmapRect(pix), p)

\* rect: the pixmap item's rectangle, w and h the lengths to divide by
scene_to_normalized_by(rect, pt, w, h) ==
    Point2D(RDiv(RSub(pt.x, rect.l), w), RDiv(RSub(pt.y, rect.t), h))
scene_to_normalized_in(rect, pt, w, h) ==
    IF ~RLt(R(0), w) \/ ~RLt(R(0), h) THEN Point2D(R(0), R(0))
    ELSE scene_to_normalized_by(rect, pt, w, h)
scene_to_normalized_rect(rect, pt) == scene_to_normalized_in(rect, pt, RectW(rect), RectH(rect))
scene_to_normalized_rect_ByWidth(rect, pt) ==
    scene_to_normalized_by(rect, pt, RectW(rect), RectW(rect))

\* scene_to_normalized dividing both coordinates by the width
scene_to_normalized_ByWidth(pix, pt) ==
    IF pix = Nothing THEN Point2D(R(0), R(0))
    ELSE scene_to_normalized_rect_ByWidth(PixmapRect(pix), pt)

scene_to_normalized(pix, pt) ==
    IF pix = Nothing THEN Point2D(R(0), R(0))
    ELSE scene_to_normalized_rect(PixmapRect(pix), pt)

(***************************************************************************)
(* graphics_annotations.py: full redraw                                    *)
(***************************************************************************)
\* QGraphicsTextItem.boundingRect() for a text and a point size: the size Qt's
\* font metrics give, a fixed function of both
TextBoxSize(text, font_size) ==
    [w |-> 8 + Len(text) * (font_size \div 2), h |-> 8 + font_size]

Item(cls, ann, pos, geom, z, movable) ==
    [cls |-> cls, ann |-> ann, pos |-> pos, geom |-> geom, z |-> z,
     movable |-> movable, selected |-> FALSE, editing |-> FALSE]

ZTEXT == 30
ZARROW == 20
ZSHAPE == 10

draw_text_at(ann, anchor, box) ==
    <<Item("text", ann.id,
           QPointF(RSub(anchor.x, RHalf(R(box.w))), RSub(anchor.y, RHalf(R(box.h)))),
           <<QPointF(R(0), R(0)), QPointF(R(box.w), R(box.h))>>,
           ann.z_index + ZTEXT, TRUE)>>
draw_text(pix, ann) ==
    draw_text_at(ann, norm_to_scene(pix, ann.position),
                 TextBoxSize(ann.text, ann.font_size))

draw_arrow(pix, ann) ==
    <<Item("arrow", ann.id, QPointF(R(0), R(0)),
           <<norm_to_scene(pix, ann.end), norm_to_scene(pix, ann.start)>>,
           ann.z_index + ZARROW, TRUE)>>

\* DATUM_L: the squared distance of the normalized point n to the corner (cx, cy)
Square(a) == RMul(a, a)
datum_d2(n, cx, cy) == RAdd(Square(RSub(n.x, R(cx))), Square(RSub(n.y, R(cy))))
\* the nearest corner, the first of TL, TR, BL, BR on a tie
datum_best_key(d_tl, d_tr, d_bl, d_br) ==
    IF ~RLt(d_tr, d_tl) /\ ~RLt(d_bl, d_tl) /\ ~RLt(d_br, d_tl) THEN "TL"
    ELSE IF ~RLt(d_bl, d_tr) /\ ~RLt(d_br, d_tr) THEN "TR"
    ELSE IF ~RLt(d_br, d_bl) THEN "BL"
    ELSE "BR"
\* two arrows from (ox, oy), each a line item and a head item, selectable only
datum_arrows(ann, origin, ox, oy, hx, vy) ==
    <<Item("line", ann.id, origin, <<QPointF(ox, oy), QPointF(hx, oy)>>, ann.z_index, FALSE),
      Item("head", ann.id, origin, <<QPointF(hx, oy)>>, ann.z_index, FALSE),
      Item("line", ann.id, origin, <<QPointF(ox, oy), QPointF(ox, vy)>>, ann.z_index, FALSE),
      Item("head", ann.id, origin, <<QPointF(ox, vy)>>, ann.z_index, FALSE)>>
datum_at(ann, origin, best_key, cx, cy, offset, arm_len) ==
    datum_arrows(ann, origin,
        IF best_key \in {"TL", "BL"} THEN RSub(cx, offset) ELSE RAdd(cx, offset),
        IF best_key \in {"TL", "TR"} THEN RSub(cy, offset) ELSE RAdd(cy, offset),
        IF best_key \in {"TL", "BL"} THEN RAdd(cx, arm_len) ELSE RSub(cx, arm_len),
        IF best_key \in {"TL", "TR"} THEN RAdd(cy, arm_len) ELSE RSub(cy, arm_len))
datum_in(ann, origin, img_rect, best_key, base) ==
    datum_at(ann, origin, best_key,
        IF best_key \in {"TL", "BL"} THEN img_rect.l ELSE img_rect.r,
        IF best_key \in {"TL", "TR"} THEN img_rect.t ELSE img_rect.b,
        RMul(ann.stroke_width, R(3)),
        RMax(RMul(base, <<1, 10>>), RMul(ann.stroke_width, R(10))))
draw_datum_l(ann, origin, img_rect, n) ==
    datum_in(ann, origin, img_rect,
        datum_best_key(datum_d2(n, 0, 0), datum_d2(n, 1, 0), datum_d2(n, 0, 1),
                       datum_d2(n, 1, 1)),
        RMin(RectW(img_rect), RectH(img_rect)))

\* RECT, CIRCLE, ELLIPSE: the box at (x, y), w wide, h high, d the smaller of both
draw_box_of(ann, origin, x, y, w, h, d) ==
    IF ann.shape_type = "RECT"
    THEN <<Item("rect", ann.id, origin,
                <<QPointF(x, y), QPointF(RAdd(x, w), RAdd(y, h))>>,
                ann.z_index + ZSHAPE, TRUE)>>
    ELSE IF ann.shape_type = "CIRCLE"
    THEN <<Item("ellipse", ann.id, origin,
                <<QPointF(x, y), QPointF(RAdd(x, d), RAdd(y, d))>>,
                ann.z_index + ZSHAPE, TRUE)>>
    ELSE <<Item("ellipse", ann.id, origin,
                <<QPointF(x, y), QPointF(RAdd(x, w), RAdd(y, h))>>,
                ann.z_index + ZSHAPE, TRUE)>>
draw_box_sized(ann, origin, x, y, w, h) == draw_box_of(ann, origin, x, y, w, h, RMin(w, h))
draw_box(ann, origin, p1, p2) ==
    draw_box_sized(ann, origin, RMin(p1.x, p2.x), RMin(p1.y, p2.y),
                   RAbs(RSub(p1.x, p2.x)), RAbs(RSub(p1.y, p2.y)))

draw_shape_from(ann, origin, pts_scene) ==
    IF ann.shape_type \in {"RECT", "CIRCLE", "ELLIPSE"}
    THEN IF Len(pts_scene) < 2 THEN <<>>
         ELSE draw_box(ann, origin, pts_scene[1], pts_scene[2])
    ELSE IF Len(pts_scene) < 3 THEN <<>>
         ELSE <<Item("polygon", ann.id, origin, pts_scene, ann.z_index + ZSHAPE, TRUE)>>

draw_shape(pix, ann) ==
    IF ann.shape_type = "DATUM_L"
    THEN IF Len(ann.points) < 1 THEN <<>>
         ELSE draw_datum_l(ann, QPointF(R(0), R(0)), PixmapRect(pix), ann.points[1])
    ELSE draw_shape_from(ann, QPointF(R(0), R(0)),
             [i \in 1..Len(ann.points) |-> norm_to_scene(pix, ann.points[i])])

RECURSIVE Flatten(_)
Flatten(ss) == IF ss = <<>> THEN <<>> ELSE Head(ss) \o Flatten(Tail(ss))

\* the items _redraw_annotations leaves in the scene (the pixmap item apart)
redraw_annotations(pix, aset) ==
    IF pix = Nothing \/ aset = Nothing THEN <<>>
    ELSE LET a == aset[1]
         IN  (IF a.main_point # Nothing /\ a.main_point[1].visible
              THEN draw_text(pix, a.main_point[1]) ELSE <<>>)
             \o Flatten([i \in 1..Len(a.texts) |->
                    IF a.texts[i].visible THEN draw_text(pix, a.texts[i]) ELSE <<>>])
             \o Flatten([i \in 1..Len(a.arrows) |->
                    IF a.arrows[i].visible THEN draw_arrow(pix, a.arrows[i]) ELSE <<>>])
             \o Flatten([i \in 1..Len(a.shapes) |->
                    IF a.shapes[i].visible THEN draw_shape(pix, a.shapes[i]) ELSE <<>>])

\* the controller's preview item after a redraw or scene.clear() removed every
\* item but the pixmap: the controller still holds it, the scene no longer does
PreviewDropped(c) ==
    IF c.preview_item = Nothing THEN c
    ELSE [c EXCEPT !.preview_item = Some([c.preview_item[1] EXCEPT !.in_scene = FALSE])]

(***************************************************************************)
(* Sequence helpers                                                        *)
(***************************************************************************)
\* str.strip(): whitespace is the character " "
RECURSIVE lstrip(_)
lstrip(t) == IF t # <<>> /\ Head(t) = " " THEN lstrip(Tail(t)) ELSE t
RECURSIVE rstrip(_)
rstrip(t) == IF t # <<>> /\ t[Len(t)] = " " THEN rstrip(SubSeq(t, 1, Len(t) - 1)) ELSE t
strip(t) == rstrip(lstrip(t))

\* list.remove(x): drops the first element equal to x (dataclass equality
\* compares every field)
\* list.remove that removes nothing
list_remove_Nothing(l, x) == l

RECURSIVE list_remove(_, _)
list_remove(l, x) ==
    IF l = <<>> THEN <<>>
    ELSE IF Head(l) = x THEN Tail(l)
    ELSE <<Head(l)>> \o list_remove(Tail(l), x)

InList(l, x) == \E i \in 1..Len(l) : l[i] = x

\* abs(a) < 1/k for a rational a and a power of ten k, without leaving 32 bits
Below(a, k) == Abs(a[1]) < (a[2] + k - 1) \div k
\* abs(a) > 1/k
Above(a, k) == Abs(a[1]) > a[2] \div k

(***************************************************************************)
(* annotations.py: AnnotationSet.add_*                                     *)
(***************************************************************************)
add_text(aset, uuid, position, text, color, font_size) ==
    [aset EXCEPT !.texts = Append(@, TextAnnotation(uuid, position, text, color, font_size))]

add_arrow(aset, uuid, start, end, text, color, line_width) ==
    [aset EXCEPT !.arrows = Append(@, ArrowAnnotation(uuid, start, end, text, color,
                                        line_width, DefaultHeadSize, DefaultTextSize))]

add_shape(aset, uuid, shape_type, points, stroke_color, fill_color, stroke_width) ==
    [aset EXCEPT !.shapes = Append(@, ShapeAnnotation(uuid, shape_type, points,
                                        stroke_color, fill_color, stroke_width))]

(***************************************************************************)
(* annotation_tools.py                                                     *)
(***************************************************************************)
AnnotationToolState ==
    [shape_type |-> "RECT", text_size |-> 40, stroke_color |-> "Yellow",
     fill_color |-> None, stroke_width |-> <<3, 2>>, active_tool |-> "SHAPE",
     arrow_color |-> "Red", text_color |-> "Black"]

use_shape_tool(ts, shape_type) == [ts EXCEPT !.active_tool = "SHAPE", !.shape_type = shape_type]
use_arrow_tool(ts) == [ts EXCEPT !.active_tool = "ARROW"]
use_text_tool(ts) == [ts EXCEPT !.active_tool = "TEXT"]

\* how many annotations a completed gesture of the active tool adds at most
Needs(ts) == IF ts.active_tool = "ARROW" THEN 2 ELSE 1

(***************************************************************************)
(* annotation_controller.py                                                *)
(***************************************************************************)
MIN_SHAPE_SIZE_PX == 12
MIN_ARROW_DIST_PX == 3

AnnotationController ==
    [is_drawing |-> FALSE, start_scene_pos |-> Nothing, preview_item |-> Nothing]

clamp_scene_point(r, pt) ==
    QPointF(RMin(RMax(pt.x, r.l), r.r), RMin(RMax(pt.y, r.t), r.b))

\* a _clear_preview that leaves the reference in place
clear_preview_Kept(c) == c

clear_preview(c) == [c EXCEPT !.preview_item = Nothing]

handle_mouse_press(c, pix, button, pos) ==
    IF button # "Left" THEN c
    ELSE IF ~has_image(pix) THEN c
    ELSE clear_preview([c EXCEPT !.is_drawing = TRUE, !.start_scene_pos = Some(pos)])

handle_mouse_move(c, ts, srect, pos) ==
    IF ~c.is_drawing \/ c.start_scene_pos = Nothing THEN c
    ELSE IF ts.active_tool = "TEXT" THEN c
    ELSE LET end_pos == clamp_scene_point(srect, pos)
             st == c.start_scene_pos[1]
             line == <<st, end_pos>>
             rect == <<QPointF(RMin(st.x, end_pos.x), RMin(st.y, end_pos.y)),
                       QPointF(RMax(st.x, end_pos.x), RMax(st.y, end_pos.y))>>
         IN  IF c.preview_item = Nothing
             THEN IF ts.active_tool = "ARROW"
                  THEN [c EXCEPT !.preview_item =
                            Some([cls |-> "line", geom |-> line, in_scene |-> TRUE])]
                  ELSE IF ts.active_tool = "SHAPE"
                  THEN [c EXCEPT !.preview_item =
                            Some([cls |-> IF ts.shape_type \in {"CIRCLE", "ELLIPSE"}
                                          THEN "ellipse" ELSE "rect",
                                  geom |-> rect, in_scene |-> TRUE])]
                  ELSE c
             ELSE LET old == c.preview_item[1]
                  IN  [c EXCEPT !.preview_item =
                          Some([old EXCEPT !.geom = IF old.cls = "line" THEN line
                                                    ELSE rect])]

\* cos and sin of -90 + 36 i degrees, i = 0..9, to two decimals
StarCos == <<0, 59, 95, 95, 59, 0, -59, -95, -95, -59>>
StarSin == <<-100, -81, -31, 31, 81, 100, 81, 31, -31, -81>>

star_point(cx, cy, radius, i) ==
    Point2D(RAdd(cx, RMul(radius, RNorm(StarCos[i], 100))),
            RAdd(cy, RMul(radius, RNorm(StarSin[i], 100))))
\* the control points of a shape in the box left..right, top..bottom with
\* centre (cx, cy); r is half the smaller side
shape_points(shape_type, left, right, top, bottom, cx, cy, r) ==
    IF shape_type \in {"RECT", "CIRCLE", "ELLIPSE"}
    THEN <<Point2D(left, top), Point2D(right, bottom)>>
    ELSE IF shape_type = "TRIANGLE"
    THEN <<Point2D(cx, top), Point2D(right, bottom), Point2D(left, bottom)>>
    ELSE IF shape_type = "POLYGON"
    THEN <<Point2D(cx, top), Point2D(right, cy), Point2D(cx, bottom), Point2D(left, cy)>>
    ELSE IF shape_type = "STAR"
    THEN [i \in 1..10 |->
            star_point(cx, cy, IF (i - 1) % 2 = 0 THEN r ELSE RMul(r, <<2, 5>>), i)]
    ELSE <<Point2D(left, top), Point2D(right, bottom)>>
shape_points_in(shape_type, left, right, top, bottom) ==
    shape_points(shape_type, left, right, top, bottom,
                 RHalf(RAdd(left, right)), RHalf(RAdd(top, bottom)),
                 RHalf(RMin(RSub(right, left), RSub(bottom, top))))

create_shape_from_drag(aset, ts, uuid, p1, p2) ==
    IF ts.shape_type = "DATUM_L"
    THEN add_shape(aset, uuid, "DATUM_L", <<p1>>, ts.stroke_color, None, ts.stroke_width)
    ELSE add_shape(aset, uuid, ts.shape_type,
                   shape_points_in(ts.shape_type, RMin(p1.x, p2.x), RMax(p1.x, p2.x),
                                   RMin(p1.y, p2.y), RMax(p1.y, p2.y)),
                   ts.stroke_color, ts.fill_color, ts.stroke_width)

\* a variant that only looks at the dialog's OK button
create_text_at_Unstripped(aset, ts, uuid, p, reply) ==
    IF ~reply.ok THEN aset
    ELSE add_text(aset, uuid, p, strip(reply.text), ts.text_color, ts.text_size)

\* reply: what QInputDialog.getText returned, [ok, text]
create_text_at(aset, ts, uuid, p, reply) ==
    IF ~reply.ok THEN aset
    ELSE IF strip(reply.text) = <<>> THEN aset
    ELSE add_text(aset, uuid, p, strip(reply.text), ts.text_color, ts.text_size)

(***************************************************************************)
(* graphics_annotations.py: snapping arrow tails to text boxes             *)
(***************************************************************************)
PAD_PX == 3

\* item.mapRectToScene(item.boundingRect()) of a text, rect or ellipse item
ItemSceneRect(it) ==
    QRectF(RAdd(it.pos.x, it.geom[1].x), RAdd(it.pos.y, it.geom[1].y),
           RAdd(it.pos.x, it.geom[2].x), RAdd(it.pos.y, it.geom[2].y))

RectCenter(r) == QPointF(RHalf(RAdd(r.l, r.r)), RHalf(RAdd(r.t, r.b)))

\* min(sx, sy) with float("inf") for an axis the direction lacks
edge_scale_of(xok, yok, sx, sy) == IF ~xok THEN sy ELSE IF ~yok THEN sx ELSE RMin(sx, sy)
edge_scale(dx, dy, half_w, half_h, xok, yok) ==
    edge_scale_of(xok, yok, IF xok THEN RDiv(half_w, RAbs(dx)) ELSE R(0),
                  IF yok THEN RDiv(half_h, RAbs(dy)) ELSE R(0))
edge_length(root) == IF IsZero(root) THEN R(1) ELSE root
\* the point on the edge, sc along (dx, dy) from c, and pad_px further out
edge_point_padded(c, dx, dy, sc, length, pad_px) ==
    QPointF(RAdd(RAdd(c.x, RMul(dx, sc)), RMul(RDiv(dx, length), R(pad_px))),
            RAdd(RAdd(c.y, RMul(dy, sc)), RMul(RDiv(dy, length), R(pad_px))))
edge_point_along(rect, c, dx, dy, pad_px) ==
    IF Below(dx, 1000000000) /\ Below(dy, 1000000000) THEN c
    ELSE edge_point_padded(c, dx, dy,
             edge_scale(dx, dy, RHalf(RectW(rect)), RHalf(RectH(rect)),
                        Above(dx, 1000000000), Above(dy, 1000000000)),
             edge_length(RSqrt(RAdd(RMul(dx, dx), RMul(dy, dy)))), pad_px)
edge_point_from(rect, c, toward, pad_px) ==
    edge_point_along(rect, c, RSub(toward.x, c.x), RSub(toward.y, c.y), pad_px)
edge_point_on_rect_towards(rect, toward, pad_px) ==
    edge_point_from(rect, RectCenter(rect), toward, pad_px)

ArrowIndex(aset, id) ==
    IF \E i \in 1..Len(aset.arrows) : aset.arrows[i].id = id
    THEN CHOOSE i \in 1..Len(aset.arrows) :
            aset.arrows[i].id = id /\ \A j \in 1..(i - 1) : aset.arrows[j].id # id
    ELSE 0

ShapeIndex(aset, id) ==
    IF \E i \in 1..Len(aset.shapes) : aset.shapes[i].id = id
    THEN CHOOSE i \in 1..Len(aset.shapes) :
            aset.shapes[i].id = id /\ \A j \in 1..(i - 1) : aset.shapes[j].id # id
    ELSE 0

\* the TextAnnotation a text item refers to (item.annotation)
TextOf(aset, id) ==
    IF \E i \in 1..Len(aset.texts) : aset.texts[i].id = id
    THEN Some(aset.texts[CHOOSE i \in 1..Len(aset.texts) : aset.texts[i].id = id])
    ELSE IF aset.main_point # Nothing /\ aset.main_point[1].id = id
    THEN aset.main_point
    ELSE Nothing

\* QGraphicsScene.items(): indices in descending stacking order, the highest z
\* first and, among equal z, the item added last first
TopOf(its, S) ==
    CHOOSE i \in S : \A j \in S :
        its[j].z < its[i].z \/ (its[j].z = its[i].z /\ j <= i)

RECURSIVE StackOrder(_, _)
StackOrder(its, S) ==
    IF S = {} THEN <<>>
    ELSE LET t == TopOf(its, S) IN <<t>> \o StackOrder(its, S \ {t})

scene_items(its) == StackOrder(its, DOMAIN its)

\* a linked text moves its parent arrow's end onto the edge of its own box,
\* towards the arrow's start; k is the arrow's index in the set, or 0
snap_arrow(pix, prev, item, k) ==
    IF k = 0 THEN prev
    ELSE [prev EXCEPT !.arrows[k].end =
             scene_to_normalized(pix,
                 edge_point_on_rect_towards(ItemSceneRect(item),
                     norm_to_scene(pix, prev.arrows[k].start), PAD_PX))]
snap_text(pix, prev, item, ann) ==
    IF item.cls # "text" \/ ann = Nothing THEN prev
    ELSE IF ann[1].parent_id = None THEN prev
    ELSE snap_arrow(pix, prev, item, ArrowIndex(prev, ann[1].parent_id))
snap_item(pix, prev, item) == snap_text(pix, prev, item, TextOf(prev, item.ann))

\* one pass over the items in the order ord[1..n]
RECURSIVE snap_items(_, _, _, _, _)
snap_items(pix, aset, its, ord, n) ==
    IF n = 0 THEN aset
    ELSE snap_item(pix, snap_items(pix, aset, its, ord, n - 1), its[ord[n]])

snap_changed(aset, its) ==
    \E n \in 1..Len(its) :
        /\ its[n].cls = "text"
        /\ TextOf(aset, its[n].ann) # Nothing
        /\ TextOf(aset, its[n].ann)[1].parent_id # None
        /\ ArrowIndex(aset, TextOf(aset, its[n].ann)[1].parent_id) # 0

\* a scene that leaves every arrow where the gesture put it
snap_Nothing(pix, aset, its) == aset

\* returns the set's new contents; the scene is redrawn when something changed
\* (a set without arrows has no tail to snap)
snap_linked_arrow_tails_to_text_edges(pix, aset, its) ==
    IF pix = Nothing \/ aset.arrows = <<>> THEN aset
    ELSE snap_items(pix, aset, its, scene_items(its), Len(its))

\* _create_arrow_from_drag without step 4 (t.parent_id = arrow.id)
create_arrow_from_drag_Unlinked(aset, pix, ts, p1, p2, reply) ==
    LET a1 == add_arrow(aset, uuid4(aset, 1), p1, p2, <<>>, ts.arrow_color, ts.stroke_width)
    IN  IF ~reply.ok \/ strip(reply.text) = <<>> THEN aset
        ELSE add_text(a1, uuid4(a1, 1), p2, strip(reply.text), ts.text_color, ts.text_size)

\* step 5: the scene is redrawn and the arrow's end snapped to the label
arrow_snapped(pix, a3) ==
    snap_linked_arrow_tails_to_text_edges(pix, a3, redraw_annotations(pix, Some(a3)))
\* step 4: the text just added is linked to the arrow
arrow_labelled(pix, arrow_id, a2) ==
    arrow_snapped(pix, [a2 EXCEPT !.texts[Len(a2.texts)].parent_id = arrow_id])
\* the arrow just added is taken back
arrow_rolled_back(a1) == [a1 EXCEPT !.arrows = list_remove(@, a1.arrows[Len(a1.arrows)])]
\* a1: the set with the new arrow arrow_id
arrow_prompted(a1, pix, ts, p2, reply, arrow_id) ==
    IF ~reply.ok THEN arrow_rolled_back(a1)
    ELSE IF strip(reply.text) = <<>> THEN arrow_rolled_back(a1)
    ELSE arrow_labelled(pix, arrow_id,
             add_text(a1, uuid4(a1, 1), p2, strip(reply.text), ts.text_color,
                      ts.text_size))
create_arrow_from_drag(aset, pix, ts, p1, p2, reply) ==
    arrow_prompted(add_arrow(aset, uuid4(aset, 1), p1, p2, <<>>, ts.arrow_color,
                             ts.stroke_width),
                   pix, ts, p2, reply, uuid4(aset, 1))

\* What handle_mouse_release leaves behind: the controller, the contents of its
\* annotation set, whether scene.set_annotation_set was called, the dialog shown
Released(c, aset, redrawn, prompt) ==
    [c |-> c, aset |-> aset, redrawn |-> redrawn, prompt |-> prompt]

\* the gesture is long enough: p1 and p2 are its normalized ends
release_create(idle, aset, pix, ts, p1, p2, reply) ==
    IF ts.active_tool = "SHAPE"
    THEN Released(idle, create_shape_from_drag(aset, ts, uuid4(aset, 1), p1, p2), TRUE, None)
    ELSE IF ts.active_tool = "ARROW"
    THEN Released(idle, create_arrow_from_drag(aset, pix, ts, p1, p2, reply), TRUE, "arrow")
    ELSE Released(idle, aset, TRUE, None)

\* idle: the controller with _is_drawing reset; st, end_pos: the gesture's ends
release_gesture(idle, aset, pix, ts, st, end_pos, reply) ==
    IF ts.active_tool = "SHAPE"
       /\ (\/ RLt(RAbs(RSub(end_pos.x, st.x)), R(MIN_SHAPE_SIZE_PX))
           \/ RLt(RAbs(RSub(end_pos.y, st.y)), R(MIN_SHAPE_SIZE_PX)))
    THEN Released(idle, aset, FALSE, None)
    ELSE IF ts.active_tool = "TEXT"
    THEN Released(idle,
                  create_text_at(aset, ts, uuid4(aset, 1),
                                 scene_to_normalized(pix, end_pos), reply),
                  TRUE, "text")
    ELSE IF RLt(manhattanLength(PSub(end_pos, st)), R(MIN_ARROW_DIST_PX))
    THEN Released(idle, aset, FALSE, None)
    ELSE release_create(idle, aset, pix, ts, scene_to_normalized(pix, st),
                        scene_to_normalized(pix, end_pos), reply)

handle_mouse_release(c, aset, pix, srect, ts, button, pos, reply) ==
    IF ~c.is_drawing \/ c.start_scene_pos = Nothing THEN Released(c, aset, FALSE, None)
    ELSE IF button # "Left" THEN Released(c, aset, FALSE, None)
    ELSE release_gesture([clear_preview(c) EXCEPT !.is_drawing = FALSE,
                                                  !.start_scene_pos = Nothing],
                         aset, pix, ts, c.start_scene_pos[1],
                         clamp_scene_point(srect, pos), reply)

(***************************************************************************)
(* Events                                                                  *)
(***************************************************************************)
Event(op) ==
    [pos |-> Nothing, prompt |-> None, op |-> op, button |-> None, hit |-> None,
     modifier |-> FALSE, reply |-> Nothing, arg |-> Nothing, to_controller |-> FALSE,
     path |-> None, before |-> 0]

\* resize: the corner and the geometry a Resizable*Item noted at the press
\* that began a corner resize (_resize_corner, _press_rect, _press_poly)
NoGrab ==
    [item |-> 0, down |-> None, press_pos |-> Nothing, init |-> <<>>, resize |-> Nothing]

Init ==
    /\ store = [i \in {1} |-> AnnotationSet]
    /\ win_set = 1
    /\ ctrl_set = 1
    /\ scene_set = Some(1)
    /\ pixmap_item = Nothing
    /\ image_rect = Nothing
    /\ scene_rect = QRectF(R(0), R(0), R(0), R(0))
    /\ tool_state = AnnotationToolState
    /\ ctrl = AnnotationController
    /\ items = <<>>
    /\ grab = NoGrab
    /\ ev = Event("init")
    /\ probe = Nothing

\* the contents of the set the scene draws
SceneSet(st, ss) == IF ss = Nothing THEN Nothing ELSE Some(st[ss[1]])

(***************************************************************************)
(* graphics_annotations.py: set_image; main.py: load / paste an image      *)
(***************************************************************************)
BASE_MARGIN_MIN == 120

set_image_scene_rect(pix, vp) ==
    LET img_rect == PixmapRect(pix)
        img_w == RectW(img_rect)
        img_h == RectH(img_rect)
        base_margin == RMax(RMul(RMax(img_w, img_h), <<1, 10>>), R(BASE_MARGIN_MIN))
        usable == vp.w > 10 /\ vp.h > 10
        vp_aspect == RNorm(vp.w, vp.h)
        desired_scene_w == RMul(img_h, vp_aspect)
        desired_scene_h == RDiv(img_w, vp_aspect)
        extra_x == IF usable /\ RLt(img_w, desired_scene_w)
                   THEN RHalf(RSub(desired_scene_w, img_w)) ELSE R(0)
        extra_y == IF usable /\ RLt(img_h, desired_scene_h)
                   THEN RHalf(RSub(desired_scene_h, img_h)) ELSE R(0)
        margin_x == RMax(base_margin, extra_x)
        margin_y == RMax(base_margin, extra_y)
    IN  QRectF(RSub(img_rect.l, margin_x), RSub(img_rect.t, margin_y),
               RAdd(img_rect.r, margin_x), RAdd(img_rect.b, margin_y))

\* a redraw removes every item: Qt drops the grabber, the button stays down
GrabDropped(g) == [g EXCEPT !.item = 0, !.init = <<>>, !.resize = Nothing]

SetImage(size, vp) ==
    LET pix == Some(size) IN
    /\ pixmap_item' = pix
    /\ image_rect' = Some(PixmapRect(pix))
    /\ scene_rect' = set_image_scene_rect(pix, vp)
    /\ items' = redraw_annotations(pix, SceneSet(store, scene_set))
    /\ ctrl' = PreviewDropped(ctrl)
    /\ grab' = GrabDropped(grab)
    /\ ev' = [Event("set_image") EXCEPT !.arg = Some(size)]
    /\ UNCHANGED <<store, win_set, ctrl_set, scene_set, tool_state, probe>>

(***************************************************************************)
(* main.py: reset_all, tool buttons                                        *)
(***************************************************************************)
\* a reset_all without the assignment to the controller (main.py:1513)
Reset_ControllerKept ==
    LET fresh == IF win_set = 1 THEN 2 ELSE 1 IN
    /\ grab.down = None
    /\ store' = [i \in {fresh, ctrl_set} |->
                    IF i = fresh THEN AnnotationSet ELSE store[ctrl_set]]
    /\ win_set' = fresh
    /\ scene_set' = Some(fresh)
    /\ ctrl_set' = ctrl_set
    /\ items' = <<>>
    /\ pixmap_item' = Nothing
    /\ ctrl' = PreviewDropped(ctrl)
    /\ ev' = Event("reset_all")
    /\ UNCHANGED <<image_rect, scene_rect, tool_state, grab, probe>>

Reset ==
    LET fresh == IF win_set = 1 THEN 2 ELSE 1 IN
    /\ grab.down = None
    /\ store' = [i \in {fresh} |-> AnnotationSet]
    /\ win_set' = fresh
    /\ scene_set' = Some(fresh)
    /\ ctrl_set' = fresh
    /\ items' = <<>>
    /\ pixmap_item' = Nothing
    /\ ctrl' = PreviewDropped(ctrl)
    /\ ev' = Event("reset_all")
    /\ UNCHANGED <<image_rect, scene_rect, tool_state, grab, probe>>

SelectShapeTool(shape_type) ==
    /\ grab.down = None
    /\ tool_state' = use_shape_tool(tool_state, shape_type)
    /\ ev' = [Event("on_select_shape_tool") EXCEPT !.arg = Some(shape_type)]
    /\ UNCHANGED <<store, win_set, ctrl_set, scene_set, pixmap_item, image_rect,
                   scene_rect, ctrl, items, grab, probe>>

SelectArrowTool ==
    /\ grab.down = None
    /\ tool_state' = use_arrow_tool(tool_state)
    /\ ev' = Event("on_select_arrow_tool")
    /\ UNCHANGED <<store, win_set, ctrl_set, scene_set, pixmap_item, image_rect,
                   scene_rect, ctrl, items, grab, probe>>

SelectTextTool ==
    /\ grab.down = None
    /\ tool_state' = use_text_tool(tool_state)
    /\ ev' = Event("on_select_text_tool")
    /\ UNCHANGED <<store, win_set, ctrl_set, scene_set, pixmap_item, image_rect,
                   scene_rect, ctrl, items, grab, probe>>

(***************************************************************************)
(* graphics_annotations.py: writing item geometry back into the set        *)
(***************************************************************************)
TextIndex(aset, id) ==
    IF \E i \in 1..Len(aset.texts) : aset.texts[i].id = id
    THEN CHOOSE i \in 1..Len(aset.texts) :
            aset.texts[i].id = id /\ \A j \in 1..(i - 1) : aset.texts[j].id # id
    ELSE 0

\* assignment to one attribute group of the text object an item refers to
PutText(aset, id, t) ==
    IF TextIndex(aset, id) # 0 THEN [aset EXCEPT !.texts[TextIndex(aset, id)] = t]
    ELSE IF aset.main_point # Nothing /\ aset.main_point[1].id = id
    THEN [aset EXCEPT !.main_point = Some(t)]
    ELSE aset

Dist2(p, q) == RAdd(RMul(RSub(p.x, q.x), RSub(p.x, q.x)),
                    RMul(RSub(p.y, q.y), RSub(p.y, q.y)))

\* min(candidates, key = squared distance to q): the first minimal one
RECURSIVE MinBy(_, _)
MinBy(cands, q) ==
    IF Len(cands) = 1 THEN cands[1]
    ELSE LET rest == MinBy(Tail(cands), q)
         IN  IF RLt(Dist2(rest, q), Dist2(Head(cands), q)) THEN rest ELSE Head(cands)

translate_scene(pix, ps, dx, dy) ==
    scene_to_normalized(pix, QPointF(RAdd(ps.x, dx), RAdd(ps.y, dy)))

translate_norm(pix, p, dx, dy) == translate_scene(pix, norm_to_scene(pix, p), dx, dy)

\* the linked arrow's end is pulled to the nearest edge point of the text's box
text_pull_arrow(pix, a1, ka, bbox, end_scene) ==
    [a1 EXCEPT !.arrows[ka].end =
        scene_to_normalized(pix,
            MinBy(<<QPointF(bbox.l, RMin(RMax(end_scene.y, bbox.t), bbox.b)),
                    QPointF(bbox.r, RMin(RMax(end_scene.y, bbox.t), bbox.b)),
                    QPointF(RMin(RMax(end_scene.x, bbox.l), bbox.r), bbox.t),
                    QPointF(RMin(RMax(end_scene.x, bbox.l), bbox.r), bbox.b)>>,
                  end_scene))]

\* a variant that leaves the parent shape where it is
text_push_shape_Alone(pix, a1, ks, dx, dy) == a1

\* the parent shape follows the text by the text's displacement
text_push_shape(pix, a1, ks, dx, dy) ==
    IF Below(dx, 1000000) /\ Below(dy, 1000000) THEN a1
    ELSE [a1 EXCEPT !.shapes[ks].points =
            [i \in 1..Len(a1.shapes[ks].points) |->
                translate_norm(pix, a1.shapes[ks].points[i], dx, dy)]]

\* ka, ks: where the text's parent is among the arrows and the shapes (0: not)
text_linked(pix, a1, ann, bbox, dx, dy, ka, ks) ==
    IF ann.parent_id = None THEN a1
    ELSE IF ka # 0
    THEN text_pull_arrow(pix, a1, ka, bbox, norm_to_scene(pix, a1.arrows[ka].end))
    ELSE IF ks # 0 THEN text_push_shape(pix, a1, ks, dx, dy)
    ELSE a1

text_repositioned(pix, a1, ann, bbox, dx, dy) ==
    text_linked(pix, a1, ann, bbox, dx, dy,
                ArrowIndex(a1, ann.parent_id), ShapeIndex(a1, ann.parent_id))

text_moved(pix, aset, ann, bbox, old_center_scene, new_center_scene) ==
    text_repositioned(pix,
        PutText(aset, ann.id,
                [ann EXCEPT !.position = scene_to_normalized(pix, new_center_scene)]),
        ann, bbox,
        RSub(new_center_scene.x, old_center_scene.x),
        RSub(new_center_scene.y, old_center_scene.y))

sync_text_found(pix, aset, ann, bbox) ==
    text_moved(pix, aset, ann, bbox, norm_to_scene(pix, ann.position), RectCenter(bbox))

sync_text_of(pix, aset, item, found) ==
    IF item.cls # "text" \/ found = Nothing \/ ~item.movable THEN aset
    ELSE sync_text_found(pix, aset, found[1], ItemSceneRect(item))

sync_one_text(pix, aset, item) == sync_text_of(pix, aset, item, TextOf(aset, item.ann))

RECURSIVE sync_text_fold(_, _, _, _, _)
sync_text_fold(pix, aset, its, ord, n) ==
    IF n = 0 THEN aset
    ELSE sync_one_text(pix, sync_text_fold(pix, aset, its, ord, n - 1), its[ord[n]])

sync_text_annotations_from_items(pix, aset, its) ==
    IF pix = Nothing THEN aset
    ELSE sync_text_fold(pix, aset, its, scene_items(its), Len(its))

\* centre of the bounding box of a sequence of scene points
RECURSIVE FoldMin(_, _)
FoldMin(xs, i) == IF i = 1 THEN xs[1] ELSE RMin(xs[i], FoldMin(xs, i - 1))
RECURSIVE FoldMax(_, _)
FoldMax(xs, i) == IF i = 1 THEN xs[1] ELSE RMax(xs[i], FoldMax(xs, i - 1))

BoxCenterOf(xs, ys) ==
    QPointF(RHalf(RAdd(FoldMin(xs, Len(xs)), FoldMax(xs, Len(xs)))),
            RHalf(RAdd(FoldMin(ys, Len(ys)), FoldMax(ys, Len(ys)))))

BoxCenter(pts) ==
    BoxCenterOf([i \in 1..Len(pts) |-> pts[i].x], [i \in 1..Len(pts) |-> pts[i].y])

\* item.mapToScene of the item's own points
ItemScenePoints(it) == [i \in 1..Len(it.geom) |-> PAdd(it.geom[i], it.pos)]

rect_to_points(pix, r) ==
    <<scene_to_normalized(pix, QPointF(r.l, r.t)),
      scene_to_normalized(pix, QPointF(r.r, r.b))>>

\* a variant that reads the polygon as an open line and leaves its last point out
polygon_to_points_Open(pix, pts) ==
    [i \in 1..(Len(pts) - 1) |-> scene_to_normalized(pix, pts[i])]

\* one control point for each point of the polygon item
polygon_to_points(pix, pts) ==
    [i \in 1..Len(pts) |-> scene_to_normalized(pix, pts[i])]

update_shape_annotation_from_item(pix, aset, item, k) ==
    IF aset.shapes[k].shape_type \in {"RECT", "CIRCLE", "ELLIPSE"}
    THEN IF item.cls \in {"rect", "ellipse"}
         THEN [aset EXCEPT !.shapes[k].points = rect_to_points(pix, ItemSceneRect(item))]
         ELSE aset
    ELSE IF aset.shapes[k].shape_type \in {"TRIANGLE", "POLYGON", "STAR"}
    THEN IF item.cls = "polygon"
         THEN [aset EXCEPT !.shapes[k].points =
                  polygon_to_points(pix, ItemScenePoints(item))]
         ELSE aset
    ELSE aset

sync_shape_alone_at(pix, aset, item, k) ==
    IF k = 0 THEN aset ELSE update_shape_annotation_from_item(pix, aset, item, k)

sync_one_shape_Alone(pix, aset, item) ==
    sync_shape_alone_at(pix, aset, item, ShapeIndex(aset, item.ann))

\* the texts linked to shape id follow it by (dx, dy)
shape_pushes_texts(pix, a1, id, dx, dy) ==
    IF Below(dx, 1000) /\ Below(dy, 1000) THEN a1
    ELSE [a1 EXCEPT !.texts =
            [i \in 1..Len(a1.texts) |->
                IF a1.texts[i].parent_id # id THEN a1.texts[i]
                ELSE [a1.texts[i] EXCEPT !.position =
                        translate_norm(pix, a1.texts[i].position, dx, dy)]]]

shape_moved(pix, aset, item, k, old_center, new_center) ==
    shape_pushes_texts(pix, update_shape_annotation_from_item(pix, aset, item, k),
                       aset.shapes[k].id,
                       RSub(new_center.x, old_center.x),
                       RSub(new_center.y, old_center.y))

\* a shape rule that takes the item's own offset for the distance it moved
sync_shape_at_ByOffset(pix, aset, item, k) ==
    IF k = 0 \/ ~item.movable \/ item.cls \notin {"rect", "ellipse", "polygon"} THEN aset
    ELSE IF aset.shapes[k].points = <<>> THEN aset
    ELSE shape_moved(pix, aset, item, k,
                     BoxCenter(item.geom), BoxCenter(ItemScenePoints(item)))

sync_shape_at(pix, aset, item, k) ==
    IF k = 0 \/ ~item.movable \/ item.cls \notin {"rect", "ellipse", "polygon"} THEN aset
    ELSE IF aset.shapes[k].points = <<>> THEN aset
    ELSE shape_moved(pix, aset, item, k,
                     BoxCenter([i \in 1..Len(aset.shapes[k].points) |->
                                   norm_to_scene(pix, aset.shapes[k].points[i])]),
                     BoxCenter(ItemScenePoints(item)))

sync_one_shape(pix, aset, item) == sync_shape_at(pix, aset, item, ShapeIndex(aset, item.ann))

RECURSIVE sync_shape_fold(_, _, _, _)
sync_shape_fold(pix, aset, its, n) ==
    IF n = 0 THEN aset
    ELSE IF its[n].selected
    THEN sync_one_shape(pix, sync_shape_fold(pix, aset, its, n - 1), its[n])
    ELSE sync_shape_fold(pix, aset, its, n - 1)

\* (a set without shapes has none to update)
sync_shape_annotations_from_items(pix, aset, its) ==
    IF pix = Nothing \/ aset.shapes = <<>> THEN aset
    ELSE sync_shape_fold(pix, aset, its, Len(its))

\* one selected, movable arrow item that was dragged off its origin
arrow_translated(aset, k, id, new_start, new_end) ==
    [aset EXCEPT !.arrows[k].start = new_start,
                 !.arrows[k].end = new_end,
                 !.texts = [i \in 1..Len(aset.texts) |->
                     IF aset.texts[i].parent_id = id
                     THEN [aset.texts[i] EXCEPT !.position = new_end]
                     ELSE aset.texts[i]]]

sync_arrow_at(pix, aset, k, dx, dy) ==
    IF k = 0 THEN aset
    ELSE arrow_translated(aset, k, aset.arrows[k].id,
                          translate_norm(pix, aset.arrows[k].start, dx, dy),
                          translate_norm(pix, aset.arrows[k].end, dx, dy))

sync_one_arrow(pix, aset, item) ==
    sync_arrow_at(pix, aset, ArrowIndex(aset, item.ann), item.pos.x, item.pos.y)

ArrowMoved(it) ==
    /\ it.selected
    /\ it.cls = "arrow"
    /\ it.movable
    /\ ~Below(RAdd(RAbs(it.pos.x), RAbs(it.pos.y)), 1000000)

RECURSIVE sync_arrow_fold(_, _, _, _)
sync_arrow_fold(pix, aset, its, n) ==
    IF n = 0 THEN aset
    ELSE IF ArrowMoved(its[n])
    THEN sync_one_arrow(pix, sync_arrow_fold(pix, aset, its, n - 1), its[n])
    ELSE sync_arrow_fold(pix, aset, its, n - 1)

arrows_resnapped(pix, a1, its1, a2) ==
    [aset |-> a2,
     items |-> IF snap_changed(a1, its1) THEN redraw_annotations(pix, Some(a2)) ELSE its1]

arrows_synced(pix, a1, its1) ==
    arrows_resnapped(pix, a1, its1, snap_linked_arrow_tails_to_text_edges(pix, a1, its1))

\* the set and the items the pass leaves: moved arrow items are put back at the
\* origin, then the tails are snapped against the items as they stand (a set
\* without arrows has nothing to move and nothing to snap)
sync_arrow_annotations_from_items(pix, aset, its) ==
    IF pix = Nothing \/ aset.arrows = <<>> \/ ~(\E n \in 1..Len(its) : ArrowMoved(its[n]))
    THEN [aset |-> aset, items |-> its]
    ELSE arrows_synced(pix, sync_arrow_fold(pix, aset, its, Len(its)),
                       [n \in 1..Len(its) |->
                           IF ArrowMoved(its[n])
                           THEN [its[n] EXCEPT !.pos = QPointF(R(0), R(0))] ELSE its[n]])

(***************************************************************************)
(* Qt's default item behaviour: selection, mouse grab, dragging            *)
(***************************************************************************)
SelectedIds(its) == {its[i].ann : i \in {j \in 1..Len(its) : its[j].selected}}

clearSelection(its) == [i \in 1..Len(its) |-> [its[i] EXCEPT !.selected = FALSE]]

Reselect(its, ids) ==
    [i \in 1..Len(its) |-> IF its[i].ann \in ids THEN [its[i] EXCEPT !.selected = TRUE]
                           ELSE its[i]]

redraw_annotations_lose_selection(pix, aset, its) == redraw_annotations(pix, aset)

\* _redraw_annotations_preserve_selection
redraw_annotations_preserve_selection(pix, aset, its) ==
    Reselect(redraw_annotations(pix, aset), SelectedIds(its))

\* the item with TextEditorInteraction that holds the keyboard focus, or 0
EditingItem(its) ==
    IF \E i \in 1..Len(its) : its[i].editing
    THEN CHOOSE i \in 1..Len(its) : its[i].editing ELSE 0

\* QGraphicsItem::mousePressEvent of a selectable item
item_press(its, h, button, modifier) ==
    IF button = "Left" /\ ~modifier /\ ~its[h].selected
    THEN [clearSelection(its) EXCEPT ![h].selected = TRUE]
    ELSE its

\* QGraphicsItem::mouseReleaseEvent of a selectable item
item_release(its, h, button, modifier, moved) ==
    IF button = "Left" /\ ~moved
    THEN IF modifier THEN [its EXCEPT ![h].selected = ~@]
         ELSE [clearSelection(its) EXCEPT ![h].selected = TRUE]
    ELSE its

\* QGraphicsItem::mouseMoveEvent of the grabber: every selected movable item
\* and the grabber itself follow the pointer from where they were at the press
item_drag(its, g, pos) ==
    LET delta == PSub(pos, g.press_pos[1])
        init == IF g.init = <<>> THEN [i \in 1..Len(its) |-> its[i].pos] ELSE g.init
    IN  [i \in 1..Len(its) |->
            IF its[i].movable /\ (its[i].selected \/ i = g.item)
            THEN [its[i] EXCEPT !.pos = PAdd(init[i], delta)] ELSE its[i]]

(***************************************************************************)
(* graphics_annotations.py: _ResizeMixin and the Resizable*Item classes    *)
(***************************************************************************)
RESIZE_MARGIN_PX == 8
MIN_SIZE_PX == 12

near_corner(a, cx, cy) ==
    RLe(RAdd(Square(RSub(a.x, cx)), Square(RSub(a.y, cy))),
        R(RESIZE_MARGIN_PX * RESIZE_MARGIN_PX))

\* _ResizeMixin._hit_corner: the first of TL, TR, BL, BR that the point is
\* within RESIZE_MARGIN_PX of, in the item's own coordinates
hit_corner(rect, pos) ==
    IF near_corner(pos, rect.l, rect.t) THEN "TL"
    ELSE IF near_corner(pos, rect.r, rect.t) THEN "TR"
    ELSE IF near_corner(pos, rect.l, rect.b) THEN "BL"
    ELSE IF near_corner(pos, rect.r, rect.b) THEN "BR"
    ELSE None

\* QGraphicsPolygonItem.boundingRect() of a ResizablePolygonItem: the box of
\* its shape(), which is the box of the polygon widened by RESIZE_MARGIN_PX
\* on every side (the pens of the model are narrower than that)
polygon_bounding_rect(xs, ys) ==
    QRectF(RSub(FoldMin(xs, Len(xs)), R(RESIZE_MARGIN_PX)),
           RSub(FoldMin(ys, Len(ys)), R(RESIZE_MARGIN_PX)),
           RAdd(FoldMax(xs, Len(xs)), R(RESIZE_MARGIN_PX)),
           RAdd(FoldMax(ys, Len(ys)), R(RESIZE_MARGIN_PX)))

\* the rectangle whose corners resize an item with the geometry geom: rect()
\* of a rectangle or ellipse item, boundingRect() of a polygon item
resize_rect(cls, geom) ==
    IF cls = "polygon"
    THEN polygon_bounding_rect([i \in 1..Len(geom) |-> geom[i].x],
                               [i \in 1..Len(geom) |-> geom[i].y])
    ELSE QRectF(geom[1].x, geom[1].y, geom[2].x, geom[2].y)

\* the corner of the item under the point, or None
item_corner(it, pos) ==
    IF it.cls \in {"rect", "ellipse", "polygon"}
    THEN hit_corner(resize_rect(it.cls, it.geom), PSub(pos, it.pos))
    ELSE None

\* Resizable*Item.mousePressEvent: a left press on a corner of the selected
\* item begins a resize and goes no further
resize_at(it, corner) ==
    IF corner = None THEN Nothing ELSE Some([geom |-> it.geom, corner |-> corner])
resize_press(its, h, button, pos) ==
    IF h # 0 /\ button = "Left" /\ its[h].selected
    THEN resize_at(its[h], item_corner(its[h], pos))
    ELSE Nothing

\* r.setTopLeft(r.topLeft() + dp) and the like
corner_moved(r, corner, dp) ==
    QRectF(IF corner \in {"TL", "BL"} THEN RAdd(r.l, dp.x) ELSE r.l,
           IF corner \in {"TL", "TR"} THEN RAdd(r.t, dp.y) ELSE r.t,
           IF corner \in {"TR", "BR"} THEN RAdd(r.r, dp.x) ELSE r.r,
           IF corner \in {"BL", "BR"} THEN RAdd(r.b, dp.y) ELSE r.b)

\* a resize without the floor on the width
min_width_None(r, corner) == r

min_width(r, corner) ==
    IF ~RLt(RectW(r), R(MIN_SIZE_PX)) THEN r
    ELSE IF corner \in {"TL", "BL"} THEN [r EXCEPT !.l = RSub(r.r, R(MIN_SIZE_PX))]
    ELSE [r EXCEPT !.r = RAdd(r.l, R(MIN_SIZE_PX))]

min_height(r, corner) ==
    IF ~RLt(RectH(r), R(MIN_SIZE_PX)) THEN r
    ELSE IF corner \in {"TL", "TR"} THEN [r EXCEPT !.t = RSub(r.b, R(MIN_SIZE_PX))]
    ELSE [r EXCEPT !.b = RAdd(r.t, R(MIN_SIZE_PX))]

\* QRectF.normalized()
normalized(r) == QRectF(RMin(r.l, r.r), RMin(r.t, r.b), RMax(r.l, r.r), RMax(r.t, r.b))

\* the rectangle a resize gives: the press rectangle with its corner dp away
resized_rect(press_rect, corner, dp) ==
    normalized(min_height(min_width(corner_moved(press_rect, corner, dp), corner), corner))

\* new.width() / old.width(), 1.0 for an empty old rectangle (a bounding
\* rectangle is at least twice RESIZE_MARGIN_PX wide)
resize_scale(new_len, old_len) == IF RLt(R(0), old_len) THEN RDiv(new_len, old_len) ELSE R(1)

scaled_point(p, oc, nc, sx, sy) ==
    QPointF(RAdd(nc.x, RMul(RSub(p.x, oc.x), sx)), RAdd(nc.y, RMul(RSub(p.y, oc.y), sy)))

\* ResizablePolygonItem.mouseMoveEvent: every point of the press polygon
\* scaled about the centre
scaled_polygon(press_poly, old, new) ==
    [i \in 1..Len(press_poly) |->
        scaled_point(press_poly[i], RectCenter(old), RectCenter(new),
                     resize_scale(RectW(new), RectW(old)),
                     resize_scale(RectH(new), RectH(old)))]

resized_geom(cls, press_geom, old, new) ==
    IF cls = "polygon" THEN scaled_polygon(press_geom, old, new)
    ELSE <<QPointF(new.l, new.t), QPointF(new.r, new.b)>>

\* Resizable*Item.mouseMoveEvent while resizing: setRect / setPolygon
item_resize(it, rs, dp) ==
    [it EXCEPT !.geom = resized_geom(it.cls, rs.geom, resize_rect(it.cls, rs.geom),
                            resized_rect(resize_rect(it.cls, rs.geom), rs.corner, dp))]

(***************************************************************************)
(* graphics_annotations.py: EditableTextItem                               *)
(***************************************************************************)
\* _commit_and_stop of the text item its[e] whose document holds `typed`: the
\* new contents of the set (the scene is redrawn afterwards)
commit_text(pix, aset, item, ann, typed, box) ==
    PutText(aset, item.ann,
            [ann EXCEPT !.text = strip(typed),
                        !.position =
                            scene_to_normalized(pix,
                                QPointF(RAdd(item.pos.x, RHalf(R(box.w))),
                                        RAdd(item.pos.y, RHalf(R(box.h)))))])

commit_found(pix, aset, item, found, typed) ==
    IF found = Nothing THEN aset
    ELSE commit_text(pix, aset, item, found[1], typed,
                     TextBoxSize(typed, found[1].font_size))

commit_and_stop(pix, aset, its, e, typed) ==
    commit_found(pix, aset, its[e], TextOf(aset, its[e].ann), typed)

\* the edit is written to the set and the scene redrawn
Committed(aset, typed) ==
    /\ store' = [store EXCEPT ![scene_set[1]] = aset]
    /\ items' = redraw_annotations(pixmap_item, Some(aset))
    /\ ctrl' = PreviewDropped(ctrl)
    /\ grab' = GrabDropped(grab)
    /\ ev' = [Event("commit_and_stop") EXCEPT !.arg = Some(typed)]

\* Enter in the editor, or the keyboard focus leaving it (focusOutEvent)
CommitEdit(typed) ==
    /\ EditingItem(items) # 0
    /\ Committed(commit_and_stop(pixmap_item, store[scene_set[1]], items,
                                 EditingItem(items), typed), typed)
    /\ UNCHANGED <<win_set, ctrl_set, scene_set, pixmap_item, image_rect, scene_rect,
                   tool_state, probe>>

(***************************************************************************)
(* graphics_annotations.py: AnnotationScene mouse events                   *)
(***************************************************************************)
IsShapeItem(it) == it.cls \in {"rect", "ellipse", "polygon", "line", "head"}

ungroup(aset, id) ==
    [aset EXCEPT !.texts = [i \in 1..Len(aset.texts) |->
        IF aset.texts[i].parent_id = id THEN [aset.texts[i] EXCEPT !.parent_id = None]
        ELSE aset.texts[i]]]

\* the item of the annotation `id` that a redraw put where the old one was
ItemOf(its, id) ==
    IF \E i \in 1..Len(its) : its[i].ann = id
    THEN CHOOSE i \in 1..Len(its) : its[i].ann = id ELSE 0

\* half the width of the click area of an arrow or a line: shape() strokes
\* the path max(20, 3 * pen width) wide
CLICK_HALF_WIDTH == 10

\* whether the item's shape() holds the scene point: the rectangle of a text
\* or a rectangle item, the bounding box of a polygon, the tip of a head, and
\* for an arrow or a line the box of its two ends widened by the click width
\* (the stroked line itself when the line is horizontal or vertical)
BoxHolds(xs, ys, pad, pos) ==
    /\ RLe(RSub(FoldMin(xs, Len(xs)), pad), pos.x)
    /\ RLe(pos.x, RAdd(FoldMax(xs, Len(xs)), pad))
    /\ RLe(RSub(FoldMin(ys, Len(ys)), pad), pos.y)
    /\ RLe(pos.y, RAdd(FoldMax(ys, Len(ys)), pad))

PointsHold(pts, pad, pos) ==
    /\ pts # <<>>
    /\ BoxHolds([i \in 1..Len(pts) |-> pts[i].x], [i \in 1..Len(pts) |-> pts[i].y],
                pad, pos)

ItemContains(it, pos) ==
    PointsHold(ItemScenePoints(it),
               IF it.cls \in {"arrow", "line"} THEN R(CLICK_HALF_WIDTH)
               ELSE IF it.cls \in {"ellipse", "polygon"} THEN R(RESIZE_MARGIN_PX)
               ELSE R(0), pos)

TopOrNone(its, S) == IF S = {} THEN 0 ELSE TopOf(its, S)

\* scene.itemAt(pos): the topmost annotation item at the point, or 0
itemAt(its, pos) == TopOrNone(its, {i \in 1..Len(its) : ItemContains(its[i], pos)})

\* QGraphicsScene::mousePressEvent: the items after the focus change, the
\* delivery of the press and the selection change, and the item that grabbed
\* the mouse. h is the topmost annotation item under the pointer, or 0.
default_press(its, h, button, modifier) ==
    IF h = 0 THEN [items |-> IF modifier THEN its ELSE clearSelection(its), item |-> 0]
    ELSE IF its[h].cls = "text" /\ button = "Right"
    THEN [items |-> [its EXCEPT ![h].editing = TRUE], item |-> h]
    ELSE IF its[h].cls = "text" /\ its[h].editing
    THEN [items |-> its, item |-> h]
    ELSE IF button = "Left"
    THEN [items |-> item_press(its, h, button, modifier), item |-> h]
    ELSE IF its[h].movable THEN [items |-> its, item |-> h]
    ELSE [items |-> IF modifier THEN its ELSE clearSelection(its), item |-> 0]

Pressed(item, button, pos) ==
    [item |-> item, down |-> button, press_pos |-> Some(pos), init |-> <<>>,
     resize |-> Nothing]

\* the press reached Qt: a1 is the set after a lost focus committed its editor,
\* dp what the default handling left, on_shape whether the shape menu was shown
\* and chosen whether its ungroup entry was taken
ScenePressMenu(base, pos, button, typed, lost, hit_id, a1, dp, rs, on_shape, chosen) ==
    /\ store' = [store EXCEPT ![scene_set[1]] =
                     IF chosen THEN ungroup(a1, hit_id) ELSE a1]
    /\ items' = IF chosen THEN redraw_annotations(pixmap_item, Some(ungroup(a1, hit_id)))
                ELSE dp.items
    /\ ctrl' = IF lost \/ chosen THEN PreviewDropped(ctrl) ELSE ctrl
    /\ grab' = [Pressed(IF chosen THEN 0 ELSE dp.item, button, pos) EXCEPT !.resize = rs]
    /\ ev' = [base EXCEPT !.prompt = IF on_shape THEN "menu" ELSE None,
                          !.arg = IF lost THEN Some(typed) ELSE Nothing]

ScenePressShape(base, pos, button, menu, typed, lost, hit_id, a1, dp, rs, on_shape) ==
    ScenePressMenu(base, pos, button, typed, lost, hit_id, a1, dp, rs, on_shape,
                   on_shape /\ menu = "ungroup")

OnShape(its1, h2, button) == button = "Right" /\ h2 # 0 /\ IsShapeItem(its1[h2])

\* its1: the items after the focus change; h1: the item the press is delivered
\* to; h: the item that was under the pointer before
ScenePressHit(base, pos, button, h, modifier, menu, typed, lost, hit_id, a1, its1, h1) ==
    ScenePressShape(base, pos, button, menu, typed, lost, hit_id, a1,
                    default_press(its1, h1, button, modifier),
                    resize_press(its1, h1, button, pos),
                    OnShape(its1, IF lost THEN ItemOf(its1, hit_id) ELSE h, button))

ScenePressFocus(base, pos, button, h, modifier, menu, typed, lost, hit_id, a1) ==
    ScenePressHit(base, pos, button, h, modifier, menu, typed, lost, hit_id, a1,
                  IF lost THEN redraw_annotations(pixmap_item, Some(a1)) ELSE items,
                  IF lost THEN 0 ELSE h)

\* lost: the focus leaves an editor that is not under the pointer
ScenePressItem(base, pos, button, h, modifier, menu, typed, e, lost, hit_id) ==
    ScenePressFocus(base, pos, button, h, modifier, menu, typed, lost, hit_id,
                    IF lost
                    THEN commit_and_stop(pixmap_item, store[scene_set[1]], items, e, typed)
                    ELSE store[scene_set[1]])

ScenePressAt(base, pos, button, h, modifier, menu, typed, e, hit_id) ==
    IF button = "Left" /\ h = 0
    THEN \* empty space: the controller starts a gesture, Qt sees nothing
         /\ ctrl' = handle_mouse_press(ctrl, pixmap_item, button, pos)
         /\ grab' = Pressed(0, button, pos)
         /\ ev' = [base EXCEPT !.to_controller = TRUE]
         /\ UNCHANGED <<store, items>>
    ELSE ScenePressItem(base, pos, button, h, modifier, menu, typed, e,
                        e # 0 /\ h # e, hit_id)

HitId(h) == IF h = 0 THEN None ELSE items[h].ann

ScenePress(pos, button, h, modifier, menu, typed) ==
    /\ grab.down = None
    /\ h \in 0..Len(items)
    /\ (button = "Left" /\ h = 0) => CanCreate(store[ctrl_set], Needs(tool_state))
    /\ ScenePressAt([Event("mousePressEvent") EXCEPT !.button = button, !.pos = Some(pos),
                         !.hit = HitId(h), !.modifier = modifier],
                    pos, button, h, modifier, menu, typed, EditingItem(items), HitId(h))
    /\ UNCHANGED <<win_set, ctrl_set, scene_set, pixmap_item, image_rect, scene_rect,
                   tool_state, probe>>

SceneMove(pos) ==
    /\ IF ctrl.is_drawing
       THEN /\ ctrl' = handle_mouse_move(ctrl, tool_state, scene_rect, pos)
            /\ UNCHANGED <<items, grab>>
       ELSE IF grab.item # 0 /\ grab.resize # Nothing
       THEN /\ items' = [items EXCEPT ![grab.item] =
                             item_resize(@, grab.resize[1], PSub(pos, grab.press_pos[1]))]
            /\ UNCHANGED <<grab, ctrl>>
       ELSE IF grab.item # 0 /\ grab.down = "Left" /\ items[grab.item].movable
               /\ ~items[grab.item].editing
       THEN /\ items' = item_drag(items, grab, pos)
            /\ grab' = [grab EXCEPT !.init = IF @ = <<>>
                                              THEN [i \in 1..Len(items) |-> items[i].pos]
                                              ELSE @]
            /\ ctrl' = ctrl
       ELSE UNCHANGED <<items, grab, ctrl>>
    /\ ev' = [Event("mouseMoveEvent") EXCEPT !.pos = Some(pos),
                                             !.to_controller = ctrl.is_drawing]
    /\ UNCHANGED <<store, win_set, ctrl_set, scene_set, pixmap_item, image_rect,
                   scene_rect, tool_state, probe>>

\* QGraphicsScene::mouseReleaseEvent: the release reaches the grabber
default_release(its, g, pos, modifier) ==
    IF g.item = 0 THEN its
    ELSE IF g.resize # Nothing THEN its
    ELSE IF its[g.item].cls = "text" /\ (its[g.item].editing \/ g.down = "Right") THEN its
    ELSE item_release(its, g.item, g.down, modifier, Some(pos) # g.press_pos)

\* step 0: a selected text is being edited, nothing but Qt's default
SceneReleaseEditing(base, pos, modifier) ==
    /\ items' = default_release(items, grab, pos, modifier)
    /\ ev' = [base EXCEPT !.path = "editing"]
    /\ UNCHANGED <<store, scene_set, ctrl>>

\* step 1: the controller is drawing; res is what handle_mouse_release left
SceneReleaseDrawing(base, res, reply) ==
    /\ ctrl' = res.c
    /\ store' = [store EXCEPT ![ctrl_set] = res.aset]
    /\ scene_set' = IF res.redrawn THEN Some(ctrl_set) ELSE scene_set
    /\ items' = IF res.redrawn THEN redraw_annotations(pixmap_item, Some(res.aset))
                ELSE items
    /\ ev' = [base EXCEPT !.to_controller = TRUE, !.path = "controller",
                          !.prompt = res.prompt,
                          !.reply = IF res.prompt = None THEN Nothing ELSE Some(reply)]

\* a pass that takes the arrows first, then the texts, then the shapes
sync_annotations_from_items_ArrowsFirst(pix, a0, its1) ==
    sync_shape_annotations_from_items(pix,
        sync_text_annotations_from_items(pix,
            sync_arrow_annotations_from_items(pix, a0, its1).aset, its1), its1)

\* step 4: texts first, then shapes, then arrows
sync_annotations_from_items(pix, a0, its1) ==
    sync_arrow_annotations_from_items(pix,
        sync_shape_annotations_from_items(pix,
            sync_text_annotations_from_items(pix, a0, its1), its1), its1).aset

\* steps 5 and 6: the redraw of the synced set and the selection put back
SceneReleaseSynced(base, selected_ids, aset) ==
    /\ store' = [store EXCEPT ![scene_set[1]] = aset]
    /\ items' = Reselect(redraw_annotations(pixmap_item, Some(aset)), selected_ids)
    /\ ctrl' = PreviewDropped(ctrl)
    /\ ev' = [base EXCEPT !.path = "sync"]
    /\ UNCHANGED scene_set

\* steps 2 to 6; its1 are the items after Qt's default handling
SceneReleaseSync(base, its1) ==
    SceneReleaseSynced(base, SelectedIds(its1),
        sync_annotations_from_items(pixmap_item, store[scene_set[1]], its1))

SceneReleaseFrom(base, pos, modifier, reply) ==
    IF \E i \in 1..Len(items) :
          items[i].selected /\ items[i].cls = "text" /\ items[i].editing
    THEN SceneReleaseEditing(base, pos, modifier)
    ELSE IF ctrl.is_drawing
    THEN SceneReleaseDrawing(base,
             handle_mouse_release(ctrl, store[ctrl_set], pixmap_item, scene_rect,
                                  tool_state, grab.down, pos, reply),
             reply)
    ELSE SceneReleaseSync(base, default_release(items, grab, pos, modifier))

SceneRelease(pos, modifier, reply) ==
    /\ grab.down # None
    /\ ctrl.is_drawing => CanCreate(store[ctrl_set], Needs(tool_state))
    /\ grab' = NoGrab
    /\ SceneReleaseFrom([Event("mouseReleaseEvent") EXCEPT !.button = grab.down,
                             !.pos = Some(pos), !.modifier = modifier,
                             !.arg = grab.press_pos],
                        pos, modifier, reply)
    /\ UNCHANGED <<win_set, ctrl_set, pixmap_item, image_rect, scene_rect, tool_state,
                   probe>>

\* the label of a shape: a1 is the set with the new text, still unlinked
ShapeLabelled(base, pos, reply, hit_id, done, a1) ==
    /\ store' = [store EXCEPT ![scene_set[1]] =
                     IF done THEN [a1 EXCEPT !.texts[Len(a1.texts)].parent_id = hit_id]
                     ELSE store[scene_set[1]]]
    /\ items' = IF done
                THEN redraw_annotations(pixmap_item,
                         Some([a1 EXCEPT !.texts[Len(a1.texts)].parent_id = hit_id]))
                ELSE items
    /\ ctrl' = IF done THEN PreviewDropped(ctrl) ELSE ctrl
    /\ grab' = Pressed(0, "Left", pos)
    /\ ev' = [base EXCEPT !.prompt = "shape", !.reply = Some(reply)]

\* a shape: ask for a label and put it at the item's centre
DoubleClickShape(base, pos, h, reply, hit_id, aset, value) ==
    ShapeLabelled(base, pos, reply, hit_id, reply.ok /\ value # <<>>,
                  add_text(aset, uuid4(aset, 1),
                           scene_to_normalized(pixmap_item,
                               BoxCenter(ItemScenePoints(items[h]))),
                           value, tool_state.text_color, tool_state.text_size))

DoubleClicked(base, pos, typed, lost, a1, dp) ==
    /\ store' = [store EXCEPT ![scene_set[1]] = a1]
    /\ items' = dp.items
    /\ ctrl' = IF lost THEN PreviewDropped(ctrl) ELSE ctrl
    /\ grab' = Pressed(dp.item, "Left", pos)
    /\ ev' = [base EXCEPT !.arg = IF lost THEN Some(typed) ELSE Nothing]

double_click_default(its1, h1) ==
    IF h1 # 0 /\ its1[h1].cls = "text"
    THEN [items |-> [its1 EXCEPT ![h1].editing = TRUE], item |-> h1]
    ELSE default_press(its1, h1, "Left", FALSE)

DoubleClickFocus(base, pos, h, typed, lost, a1) ==
    DoubleClicked(base, pos, typed, lost, a1,
                  double_click_default(
                      IF lost THEN redraw_annotations(pixmap_item, Some(a1)) ELSE items,
                      IF lost THEN 0 ELSE h))

\* anything else: Qt's default, a text item enters edit mode
DoubleClickItem(base, pos, h, typed, e, lost) ==
    DoubleClickFocus(base, pos, h, typed, lost,
                     IF lost
                     THEN commit_and_stop(pixmap_item, store[scene_set[1]], items, e, typed)
                     ELSE store[scene_set[1]])

DoubleClickAt(base, pos, h, reply, typed, e, hit_id) ==
    IF h # 0 /\ IsShapeItem(items[h])
    THEN DoubleClickShape(base, pos, h, reply, hit_id, store[scene_set[1]],
                          strip(reply.text))
    ELSE DoubleClickItem(base, pos, h, typed, e, e # 0 /\ h # e)

SceneDoubleClick(pos, h, reply, typed) ==
    /\ grab.down = None
    /\ h \in 0..Len(items)
    /\ (h # 0 /\ IsShapeItem(items[h])) => CanCreate(store[scene_set[1]], 1)
    /\ DoubleClickAt([Event("mouseDoubleClickEvent") EXCEPT !.button = "Left",
                          !.pos = Some(pos), !.hit = HitId(h)],
                     pos, h, reply, typed, EditingItem(items), HitId(h))
    /\ UNCHANGED <<win_set, ctrl_set, scene_set, pixmap_item, image_rect, scene_rect,
                   tool_state, probe>>

(***************************************************************************)
(* graphics_annotations.py: EditableTextItem.contextMenuEvent              *)
(***************************************************************************)
\* self.annotation.parent_id = None
text_ungroup(aset, found) ==
    IF found = Nothing THEN aset
    ELSE PutText(aset, found[1].id, [found[1] EXCEPT !.parent_id = None])

\* Qt sends the context menu event of a right click with the press (X11,
\* macOS) or after the release (Windows): the text item the menu is for
ContextMenuItem ==
    IF grab.down = "Right"
    THEN IF ev.op = "mousePressEvent" /\ grab.item # 0 THEN grab.item ELSE 0
    ELSE IF ev.op = "mouseReleaseEvent" /\ ev.button = "Right" /\ ev.pos # Nothing
    THEN itemAt(items, ev.pos[1])
    ELSE 0

\* a1: the set after the popup took the focus from an open editor (lost);
\* a2: the set after the chosen entry was applied
TextMenuClosed(base, typed, lost, chosen, a2) ==
    /\ store' = [store EXCEPT ![scene_set[1]] = a2]
    /\ items' = IF lost \/ chosen THEN redraw_annotations(pixmap_item, Some(a2)) ELSE items
    /\ ctrl' = IF lost \/ chosen THEN PreviewDropped(ctrl) ELSE ctrl
    /\ grab' = NoGrab
    /\ ev' = [base EXCEPT !.prompt = "menu",
                          !.arg = IF lost THEN Some(typed) ELSE Nothing,
                          !.path = IF chosen THEN "ungroup" ELSE None]

TextMenuShown(base, id, typed, lost, chosen, a1) ==
    TextMenuClosed(base, typed, lost, chosen,
                   IF chosen THEN text_ungroup(a1, TextOf(a1, id)) ELSE a1)

TextMenuOn(h, e, chosen, typed) ==
    TextMenuShown([Event("contextMenuEvent") EXCEPT !.button = "Right", !.pos = ev.pos,
                       !.hit = items[h].ann],
                  items[h].ann, typed, e # 0, chosen,
                  IF e # 0
                  THEN commit_and_stop(pixmap_item, store[scene_set[1]], items, e, typed)
                  ELSE store[scene_set[1]])

\* the menu of a text item: exec() opens a popup, which takes the keyboard focus
\* (an open editor commits what it holds, typed), and returns the entry chosen
TextContextMenu(chosen, typed) ==
    /\ ContextMenuItem # 0
    /\ items[ContextMenuItem].cls = "text"
    /\ TextMenuOn(ContextMenuItem, EditingItem(items), chosen, typed)
    /\ UNCHANGED <<win_set, ctrl_set, scene_set, pixmap_item, image_rect, scene_rect,
                   tool_state, probe>>

(***************************************************************************)
(* graphics_annotations.py: delete_selected_annotations                    *)
(***************************************************************************)
\* the annotations of the selected items, each once, in the order met
RECURSIVE to_delete(_, _)
to_delete(its, n) ==
    IF n = 0 THEN <<>>
    ELSE LET prev == to_delete(its, n - 1)
         IN  IF its[n].selected /\ ~InList(prev, its[n].ann)
             THEN Append(prev, its[n].ann) ELSE prev

\* how many annotations the set holds
Count(aset) == Len(aset.texts) + Len(aset.arrows) + Len(aset.shapes)

KeepChildren(l, id) == l

DropChildren(l, id) == SelectSeq(l, LAMBDA t : t.parent_id # id)

\* a variant that removes the annotation and nothing else
delete_one_Alone(aset, id) ==
    IF TextIndex(aset, id) # 0
    THEN [aset EXCEPT !.texts = list_remove(@, aset.texts[TextIndex(aset, id)])]
    ELSE IF ShapeIndex(aset, id) # 0
    THEN [aset EXCEPT !.shapes = list_remove(@, aset.shapes[ShapeIndex(aset, id)])]
    ELSE IF ArrowIndex(aset, id) # 0
    THEN [aset EXCEPT !.arrows = list_remove(@, aset.arrows[ArrowIndex(aset, id)])]
    ELSE aset

delete_one(aset, id) ==
    IF TextIndex(aset, id) # 0
    THEN [aset EXCEPT !.texts = list_remove(@, aset.texts[TextIndex(aset, id)])]
    ELSE IF ShapeIndex(aset, id) # 0
    THEN [aset EXCEPT !.shapes = list_remove(@, aset.shapes[ShapeIndex(aset, id)]),
                      !.texts = DropChildren(@, id)]
    ELSE IF ArrowIndex(aset, id) # 0
    THEN [aset EXCEPT !.arrows = list_remove(@, aset.arrows[ArrowIndex(aset, id)]),
                      !.texts = DropChildren(@, id)]
    ELSE aset

RECURSIVE delete_fold(_, _, _)
delete_fold(aset, ids, n) ==
    IF n = 0 THEN aset ELSE delete_one(delete_fold(aset, ids, n - 1), ids[n])

delete_selected_annotations(aset, its) ==
    delete_fold(aset, to_delete(its, Len(its)), Len(to_delete(its, Len(its))))

DeleteSelected ==
    LET aset == delete_selected_annotations(store[scene_set[1]], items) IN
    /\ EditingItem(items) = 0
    /\ store' = [store EXCEPT ![scene_set[1]] = aset]
    /\ IF SelectedIds(items) = {}
       THEN UNCHANGED <<items, ctrl, grab>>
       ELSE /\ items' = redraw_annotations(pixmap_item, Some(aset))
            /\ ctrl' = PreviewDropped(ctrl)
            /\ grab' = GrabDropped(grab)
    /\ ev' = [Event("delete_selected_annotations") EXCEPT
                  !.arg = Some(to_delete(items, Len(items))),
                  !.before = Count(store[scene_set[1]])]
    /\ UNCHANGED <<win_set, ctrl_set, scene_set, pixmap_item, image_rect, scene_rect,
                   tool_state, probe>>

(***************************************************************************)
(* main.py style handlers and graphics_annotations.py update_selected_*    *)
(***************************************************************************)
IsSelectedId(its, id) == id \in SelectedIds(its)

\* the set after `field` of every selected annotation of the kinds `lists` was
\* assigned `value`, and whether any was (changed)
update_selected(aset, its, lists, field, value) ==
    LET upd(l) == [i \in 1..Len(l) |->
                     IF IsSelectedId(its, l[i].id)
                     THEN [l[i] EXCEPT ![IF l[i].kind = "ARROW" /\ field = "stroke_width"
                                         THEN "line_width" ELSE field] = value]
                     ELSE l[i]]
    IN  [aset EXCEPT !.texts = IF "texts" \in lists THEN upd(@) ELSE @,
                     !.arrows = IF "arrows" \in lists THEN upd(@) ELSE @,
                     !.shapes = IF "shapes" \in lists THEN upd(@) ELSE @,
                     !.main_point = IF "texts" \in lists /\ @ # Nothing
                                       /\ IsSelectedId(its, @[1].id)
                                    THEN Some([@[1] EXCEPT ![field] = value]) ELSE @]

selected_kinds(aset, its, lists) ==
    \/ "texts" \in lists /\ \E id \in SelectedIds(its) : TextOf(aset, id) # Nothing
    \/ "arrows" \in lists /\ \E id \in SelectedIds(its) : ArrowIndex(aset, id) # 0
    \/ "shapes" \in lists /\ \E id \in SelectedIds(its) : ShapeIndex(aset, id) # 0

\* on_*_changed: the tool state takes the value, then the selected annotations
StyleChange(op, ts_field, lists, field, value) ==
    LET aset == store[scene_set[1]]
        changed == selected_kinds(aset, items, lists)
        a1 == update_selected(aset, items, lists, field, value)
    IN  /\ grab.down = None
        /\ tool_state' = [tool_state EXCEPT ![ts_field] = value]
        /\ store' = [store EXCEPT ![scene_set[1]] = a1]
        /\ items' = IF changed
                    THEN redraw_annotations_preserve_selection(pixmap_item, Some(a1), items)
                    ELSE items
        /\ ctrl' = IF changed THEN PreviewDropped(ctrl) ELSE ctrl
        /\ ev' = [Event(op) EXCEPT !.path = IF changed THEN "redraw" ELSE None]
        /\ UNCHANGED <<win_set, ctrl_set, scene_set, pixmap_item, image_rect, scene_rect,
                       grab, probe>>

OnShapeStrokeColorChanged(name) ==
    StyleChange("on_shape_stroke_color_changed", "stroke_color", {"shapes"},
                "stroke_color", name)

\* the combo box entry that stands for "no fill"
NO_FILL_ENTRY == "(none)"

OnShapeFillColorChanged(name) ==
    StyleChange("on_shape_fill_color_changed", "fill_color", {"shapes"},
                "fill_color", IF name = NO_FILL_ENTRY THEN None ELSE name)

OnArrowColorChanged(name) ==
    StyleChange("on_arrow_color_changed", "arrow_color", {"arrows"}, "color", name)

OnTextColorChanged(name) ==
    StyleChange("on_text_color_changed", "text_color", {"texts"}, "color", name)

OnStrokeWidthChanged(width) ==
    StyleChange("on_stroke_width_changed", "stroke_width", {"shapes", "arrows"},
                "stroke_width", width)

OnTextSizeChanged(size) ==
    StyleChange("on_text_size_changed", "text_size", {"texts"}, "font_size", size)

(***************************************************************************)
(* Serialisation round trips (annotations.py is not driven by the window)  *)
(***************************************************************************)
Pt(n, d, m, e) == Point2D(RNorm(n, d), RNorm(m, e))

SampleTexts ==
    {[TextAnnotation(id, pos, text, color, fs)
        EXCEPT !.parent_id = par, !.z_index = z, !.visible = vis, !.label = lab] :
     id \in {"u1"}, pos \in {Pt(1, 2, 1, 2), Pt(3, 10, 4, 5)},
     text \in {<<>>, <<"A">>}, color \in {"Red", "Black"}, fs \in {30, 12},
     par \in {None, "u3"}, z \in {0, 10}, vis \in BOOLEAN, lab \in {"TEXT", "note"}}

SampleArrows ==
    {[ArrowAnnotation(id, st, en, text, color, lw, hs, ts)
        EXCEPT !.z_index = z, !.visible = vis, !.label = lab] :
     id \in {"u3"}, st \in {Pt(0, 1, 0, 1)}, en \in {Pt(3, 10, 4, 5), Pt(-1, 5, 6, 5)},
     text \in {<<>>, <<"A">>}, color \in {"Red", "Blue"},
     lw \in {DefaultLineWidth, R(5)}, hs \in {DefaultHeadSize, <<1, 20>>},
     ts \in {DefaultTextSize, 40},
     z \in {0, 5}, vis \in BOOLEAN, lab \in {"ARROW", "note"}}

SampleShapes ==
    {[ShapeAnnotation(id, st, pts, sc, fc, sw)
        EXCEPT !.z_index = z, !.visible = vis, !.label = lab] :
     id \in {"u4"}, st \in ShapeType,
     pts \in {<<>>, <<Pt(0, 1, 0, 1)>>, <<Pt(0, 1, 0, 1), Pt(3, 10, 4, 5)>>,
              <<Pt(1, 2, 0, 1), Pt(1, 1, 1, 1), Pt(0, 1, 1, 1)>>},
     sc \in {"Red", "Yellow"}, fc \in {None, "Blue"}, sw \in {DefaultLineWidth, R(5)},
     z \in {0, 5}, vis \in BOOLEAN, lab \in {"SHAPE_RECT", "note"}}

SampleSets ==
    LET a1 == ArrowAnnotation("u3", Pt(0, 1, 0, 1), Pt(3, 10, 4, 5), <<>>, "Red",
                              DefaultLineWidth, DefaultHeadSize, DefaultTextSize)
        s1 == ShapeAnnotation("u4", "RECT", <<Pt(0, 1, 0, 1), Pt(3, 10, 4, 5)>>,
                              "Yellow", None, DefaultLineWidth)
        s2 == [ShapeAnnotation("u5", "DATUM_L", <<Pt(0, 1, 0, 1)>>, "Yellow", None, R(5))
                 EXCEPT !.z_index = 5]
        t0 == [TextAnnotation("u6", Pt(1, 2, 1, 2), <<"M">>, "Red", 30)
                 EXCEPT !.label = "MAIN"]
        t1 == [TextAnnotation("u1", Pt(3, 10, 4, 5), <<"A">>, "Black", 40)
                 EXCEPT !.parent_id = "u3"]
        t2 == [TextAnnotation("u2", Pt(3, 20, 2, 5), <<"B">>, "Black", 40)
                 EXCEPT !.parent_id = "u4", !.z_index = 10]
    IN  {[main_point |-> mp, texts |-> ts, arrows |-> ar, shapes |-> sh] :
         mp \in {Nothing, Some(t0)}, ts \in {<<>>, <<t1>>, <<t2>>, <<t1, t2>>},
         ar \in {<<>>, <<a1>>}, sh \in {<<>>, <<s1>>, <<s1, s2>>}}

\* the id uuid4() hands to the object from_dict constructs first
LoadUuid == "u9"

RoundTrip(kind, x, y) ==
    /\ probe = Nothing
    /\ probe' = Some([x |-> x, y |-> y, kind |-> kind])
    /\ UNCHANGED <<store, win_set, ctrl_set, scene_set, pixmap_item, image_rect,
                   scene_rect, tool_state, ctrl, items, grab, ev>>

RoundTripText ==
    \E x \in SampleTexts :
        RoundTrip("text", x, TextAnnotation_from_dict(TextAnnotation_to_dict(x), LoadUuid))

RoundTripArrow ==
    \E x \in SampleArrows :
        RoundTrip("arrow", x, ArrowAnnotation_from_dict(ArrowAnnotation_to_dict(x), LoadUuid))

RoundTripShape ==
    \E x \in SampleShapes :
        RoundTrip("shape", x, ShapeAnnotation_from_dict(ShapeAnnotation_to_dict(x), LoadUuid))

RoundTripSet ==
    \E x \in SampleSets :
        RoundTrip("set", x, AnnotationSet_from_dict(AnnotationSet_to_dict(x), LoadUuid))

NextSerial == RoundTripText \/ RoundTripArrow \/ RoundTripShape \/ RoundTripSet

SpecSerial == Init /\ [][NextSerial]_vars

\* C1: for every text, arrow, shape and annotation set, from_dict(to_dict(x))
\* equals x field for field (id, label, visible, z_index, parent_id, every
\* point and every style field).
C1_RoundTrip == probe # Nothing => probe[1].y = probe[1].x

\* a mixed set with a main point and a text linked to an arrow came back equal
C1_Witness ==
    /\ probe # Nothing
    /\ probe[1].kind = "set"
    /\ probe[1].x.main_point # Nothing
    /\ Len(probe[1].x.texts) = 2
    /\ probe[1].x.texts[1].parent_id = "u3"
    /\ Len(probe[1].x.arrows) = 1
    /\ Len(probe[1].x.shapes) = 2
    /\ probe[1].y = probe[1].x

(***************************************************************************)
(* Coordinate round trips across image loads                               *)
(***************************************************************************)
\* pixmap sizes (pixels) and viewport sizes the view may have at a load
ImageSizes == {[w |-> 200, h |-> 100], [w |-> 100, h |-> 100], [w |-> 90, h |-> 240]}
Viewports == {[w |-> 0, h |-> 0], [w |-> 200, h |-> 400], [w |-> 640, h |-> 480]}

\* normalized coordinates, some of them outside the image
NormCoords == {R(0), R(1), <<1, 2>>, <<1, 3>>, <<-1, 4>>, <<5, 4>>}

CoordRoundTrip(p) ==
    /\ probe' = Some([x |-> p,
                      y |-> scene_to_normalized(pixmap_item, norm_to_scene(pixmap_item, p)),
                      kind |-> "coord"])
    /\ ev' = Event("scene_to_normalized")
    /\ UNCHANGED <<store, win_set, ctrl_set, scene_set, pixmap_item, image_rect,
                   scene_rect, tool_state, ctrl, items, grab>>

NextCoord ==
    \/ \E size \in ImageSizes, vp \in Viewports : SetImage(size, vp)
    \/ \E x \in NormCoords, y \in NormCoords : CoordRoundTrip(Point2D(x, y))

SpecCoord == Init /\ [][NextCoord]_vars

\* C2: once an image was loaded, and whatever loads came before the current
\* one, scene_to_normalized(_norm_to_scene(p)) = p for every normalized p, and
\* both transforms use the rectangle of the current image: its corners are the
\* normalized points (0, 0) and (1, 1) in both directions.
C2_CoordRoundTrip ==
    (ev.op = "scene_to_normalized" /\ has_image(pixmap_item)) =>
        /\ probe[1].y = probe[1].x
        /\ norm_to_scene(pixmap_item, Point2D(R(0), R(0)))
               = QPointF(image_rect[1].l, image_rect[1].t)
        /\ norm_to_scene(pixmap_item, Point2D(R(1), R(1)))
               = QPointF(image_rect[1].r, image_rect[1].b)
        /\ scene_to_normalized(pixmap_item, QPointF(image_rect[1].r, image_rect[1].b))
               = Point2D(R(1), R(1))

\* a point outside the image went through both transforms of a 90 x 240 image
C2_Witness ==
    /\ ev.op = "scene_to_normalized"
    /\ pixmap_item = Some([w |-> 90, h |-> 240])
    /\ probe[1].x = Point2D(<<-1, 4>>, <<1, 3>>)
    /\ probe[1].y = probe[1].x

(***************************************************************************)
(* Drawing gestures                                                        *)
(***************************************************************************)
Px(x, y) == QPointF(R(x), R(y))

\* the model explores sets of at most MaxAnnotations annotations
MaxAnnotations == 3
Room(aset, need, max) == Count(aset) + need <= max

\* a left press that starts a corner resize of a selected shape item; the
\* specifications below leave these presses out
ResizePress(its, pos) ==
    /\ itemAt(its, pos) # 0
    /\ its[itemAt(its, pos)].selected
    /\ item_corner(its[itemAt(its, pos)], pos) # None

\* where the button goes down, and for each such place where the pointer then
\* moves and the button goes up: a plain click, below and above both creation
\* thresholds, and outside the scene rectangle of DrawImage (x from -120 to 320)
PressPositions == {Px(0, 0), Px(310, 0)}
ReleasePositions(press) ==
    IF press = Some(Px(310, 0)) THEN {Px(330, 80)}
    ELSE {Px(0, 0), Px(2, 0), Px(2, 2), Px(60, 2), Px(60, 80)}

\* where the gesture that a release ends began
GestureStart == IF ctrl.is_drawing THEN ctrl.start_scene_pos ELSE grab.press_pos

DrawImage == [w |-> 200, h |-> 100]
DrawViewport == [w |-> 0, h |-> 0]
ShapeKinds == {"RECT", "DATUM_L"}

\* what QInputDialog.getText returns: cancelled, empty, blank, a label
Replies ==
    {[text |-> <<"A">>, ok |-> FALSE], [text |-> <<>>, ok |-> TRUE], [text |-> <<" ">>, ok |-> TRUE],
     [text |-> <<" ", "A">>, ok |-> TRUE]}

\* what an editor holds when it is committed
TypedTexts == {<<"A">>}

NextDraw ==
    \/ SetImage(DrawImage, DrawViewport)
    \/ \E k \in ShapeKinds : SelectShapeTool(k)
    \/ SelectArrowTool
    \/ SelectTextTool
    \/ \E pos \in PressPositions, typed \in TypedTexts :
          /\ ~ResizePress(items, pos)
          /\ itemAt(items, pos) = 0
                => Room(store[ctrl_set], Needs(tool_state), MaxAnnotations)
          /\ ScenePress(pos, "Left", itemAt(items, pos), FALSE, "none", typed)
    \/ \E pos \in ReleasePositions(GestureStart) : ctrl.is_drawing /\ SceneMove(pos)
    \/ \E pos \in ReleasePositions(GestureStart), reply \in Replies :
          /\ ctrl.is_drawing => Room(store[ctrl_set], Needs(tool_state), MaxAnnotations)
          /\ SceneRelease(pos, FALSE, reply)
    \/ \E pos \in PressPositions, typed \in TypedTexts :
          /\ itemAt(items, pos) # 0
          /\ items[itemAt(items, pos)].cls = "text"
          /\ SceneDoubleClick(pos, itemAt(items, pos), CHOOSE r \in Replies : TRUE, typed)
    \/ \E typed \in TypedTexts : CommitEdit(typed)

SpecDraw == Init /\ [][NextDraw]_vars

(***************************************************************************)
(* Claims about drawing gestures                                           *)
(***************************************************************************)
\* the pointer-up in the step ends a left-button gesture that began on empty
\* space: from GestureA to GestureB, the release point clamped to the scene
GestureEnds ==
    /\ ev'.op = "mouseReleaseEvent"
    /\ grab.down = "Left"
    /\ grab.item = 0
    /\ ctrl.is_drawing
    /\ ctrl.start_scene_pos = grab.press_pos
GestureA == ctrl.start_scene_pos[1]
GestureB == clamp_scene_point(scene_rect, ev'.pos[1])
GestureWidth == RAbs(RSub(GestureB.x, GestureA.x))
GestureHeight == RAbs(RSub(GestureB.y, GestureA.y))

\* the prompt of the step was answered with a label that is not blank
Labelled == ev'.reply # Nothing /\ ev'.reply[1].ok /\ strip(ev'.reply[1].text) # <<>>

\* C3: a SHAPE-tool gesture narrower or lower than 12 px adds no shape,
\* leaves the whole annotation set unchanged and leaves the controller Idle.
C3_SmallShapeGesture ==
    [][(/\ GestureEnds
        /\ tool_state.active_tool = "SHAPE"
        /\ (RLt(GestureWidth, R(12)) \/ RLt(GestureHeight, R(12))))
       => (/\ store' = store
           /\ ~ctrl'.is_drawing
           /\ ctrl'.start_scene_pos = Nothing)]_vars

\* C3, the part the code keeps: such a gesture leaves the annotation set
\* unchanged, and the controller is Idle whenever the release reached it.
C3_SmallShapeNoShape ==
    [][(/\ GestureEnds
        /\ tool_state.active_tool = "SHAPE"
        /\ (RLt(GestureWidth, R(12)) \/ RLt(GestureHeight, R(12))))
       => (/\ store' = store
           /\ ev'.path = "controller" => ~ctrl'.is_drawing)]_vars

\* a SHAPE gesture from (310,0), 10 px wide once clamped, ended while a
\* selected text was being edited: the controller is still Drawing
C3_Witness ==
    /\ ev.op = "mouseReleaseEvent"
    /\ ev.arg = Some(Px(310, 0))
    /\ ev.pos = Some(Px(330, 80))
    /\ ev.path = "editing"
    /\ tool_state.active_tool = "SHAPE"
    /\ ctrl.is_drawing
    /\ ctrl.start_scene_pos = Some(Px(310, 0))

\* C4: an ARROW-tool gesture whose Manhattan length is below 3 px creates no
\* arrow and no text, opens no prompt, and leaves the annotation set unchanged.
C4_ShortArrowGesture ==
    [][(/\ GestureEnds
        /\ tool_state.active_tool = "ARROW"
        /\ RLt(RAdd(GestureWidth, GestureHeight), R(3)))
       => (/\ store' = store
           /\ ev'.prompt = None
           /\ ev'.reply = Nothing)]_vars

\* the controller ended a (0,0) to (2,0) ARROW gesture on a set that holds a text
C4_Witness ==
    /\ ev.op = "mouseReleaseEvent"
    /\ ev.path = "controller"
    /\ ev.arg = Some(Px(0, 0))
    /\ ev.pos = Some(Px(2, 0))
    /\ tool_state.active_tool = "ARROW"
    /\ ev.prompt = None
    /\ Len(store[ctrl_set].texts) = 1
    /\ store[ctrl_set].arrows = <<>>
    /\ ~ctrl.is_drawing

\* the step ends an ARROW gesture at or above the distance threshold and the
\* controller has shown the label prompt
ArrowPrompted ==
    /\ GestureEnds
    /\ tool_state.active_tool = "ARROW"
    /\ ~RLt(RAdd(GestureWidth, GestureHeight), R(3))
    /\ ev'.prompt = "arrow"

\* the controller's annotation set, and the arrow and the text added last
ControllerSet == store[ctrl_set]
LastArrow == ControllerSet.arrows[Len(ControllerSet.arrows)]
LastText == ControllerSet.texts[Len(ControllerSet.texts)]
ArrowIds == [i \in 1..Len(ControllerSet.arrows) |-> ControllerSet.arrows[i].id]

\* C5: an ARROW gesture at or above the threshold whose prompt is cancelled or
\* answered with an empty or blank text leaves the arrows and the texts as
\* they were before the gesture.
C5_UnlabelledArrowRolledBack ==
    [][(ArrowPrompted /\ ~Labelled)
       => (/\ ControllerSet'.arrows = ControllerSet.arrows
           /\ ControllerSet'.texts = ControllerSet.texts)]_vars

\* the prompt of an ARROW gesture on a set that holds a text was answered blank
C5_Witness ==
    /\ ev.op = "mouseReleaseEvent"
    /\ ev.prompt = "arrow"
    /\ ev.reply = Some([text |-> <<" ">>, ok |-> TRUE])
    /\ ControllerSet.arrows = <<>>
    /\ Len(ControllerSet.texts) = 1

\* C9 as stated: after a labelled ARROW gesture from A to B the new arrow
\* starts at the normalized A and ends at the normalized B, and the new linked
\* text sits at the arrow's end.
C9_ArrowEndsAtRelease ==
    [][(ArrowPrompted /\ Labelled)
       => (/\ Len(ControllerSet'.arrows) = Len(ControllerSet.arrows) + 1
           /\ LastArrow'.start = scene_to_normalized(pixmap_item, GestureA)
           /\ LastArrow'.end = scene_to_normalized(pixmap_item, GestureB)
           /\ LastText'.position = LastArrow'.end)]_vars

\* C9 as the code has it: the new arrow starts at the normalized A, the new
\* linked text sits at the normalized B, and the arrow's end is not B but the
\* point 3 px outside the edge of the text's box on the way from the centre of
\* the box towards A.
C9_ArrowEndsAtLabelEdge ==
    [][(ArrowPrompted /\ Labelled)
       => (/\ Len(ControllerSet'.arrows) = Len(ControllerSet.arrows) + 1
           /\ LastArrow'.start = scene_to_normalized(pixmap_item, GestureA)
           /\ LastText'.position = scene_to_normalized(pixmap_item, GestureB)
           /\ LastText'.parent_id = LastArrow'.id
           /\ ItemOf(items', LastText'.id) # 0
           /\ LastArrow'.end = scene_to_normalized(pixmap_item,
                  edge_point_on_rect_towards(
                      ItemSceneRect(items'[ItemOf(items', LastText'.id)]),
                      GestureA, 3))
           /\ LastArrow'.end # LastText'.position)]_vars

\* a labelled ARROW gesture from (0,0) to (60,80) has been completed
C9_Witness ==
    /\ ev.op = "mouseReleaseEvent"
    /\ ev.prompt = "arrow"
    /\ ev.reply = Some([text |-> <<" ", "A">>, ok |-> TRUE])
    /\ ev.arg = Some(Px(0, 0))
    /\ ev.pos = Some(Px(60, 80))
    /\ Len(ControllerSet.arrows) = 1
    /\ LastArrow.start = Point2D(R(0), R(0))
    /\ LastText.position = Point2D(<<3, 10>>, <<4, 5>>)
    /\ LastArrow.end # LastText.position

\* C10: a labelled ARROW gesture adds exactly one arrow and exactly one text,
\* and the text's parent_id is the id of the arrow the same gesture created.
C10_OneArrowOneLinkedText ==
    [][(ArrowPrompted /\ Labelled)
       => (/\ Len(ControllerSet'.arrows) = Len(ControllerSet.arrows) + 1
           /\ SubSeq(ArrowIds', 1, Len(ControllerSet.arrows)) = ArrowIds
           /\ ControllerSet'.texts = Append(ControllerSet.texts, LastText')
           /\ ControllerSet'.shapes = ControllerSet.shapes
           /\ LastArrow'.id \notin UsedIds(ControllerSet)
           /\ LastText'.id \notin UsedIds(ControllerSet) \cup {LastArrow'.id}
           /\ LastText'.parent_id = LastArrow'.id)]_vars

\* a labelled ARROW gesture has been completed on a set that held a text
C10_Witness ==
    /\ ev.op = "mouseReleaseEvent"
    /\ ev.prompt = "arrow"
    /\ ev.reply = Some([text |-> <<" ", "A">>, ok |-> TRUE])
    /\ Len(ControllerSet.arrows) = 1
    /\ Len(ControllerSet.texts) = 2
    /\ ControllerSet.texts[1].parent_id = None
    /\ ControllerSet.texts[2].parent_id = ControllerSet.arrows[1].id

(***************************************************************************)
(* Selecting, dragging, restyling and deleting                             *)
(***************************************************************************)
\* where the button goes down: two places that are empty at first, (0,0) and
\* (310,0), and two inside the rectangle drawn from (0,0) to (60,80), off its
\* corners: (30,10) beside the label in its centre and (30,40) on the label
EditPositions == {Px(0, 0), Px(310, 0), Px(30, 10), Px(30, 40)}
EditReleasePositions(press) ==
    IF press = Some(Px(310, 0)) THEN {Px(330, 80)} ELSE {Px(60, 80)}

\* how far a drag carries the pointer, and the left edge beyond which the model
\* drags an item no further (a dragged label takes its shape along, so without
\* it positions would drift without end)
DragDelta == Px(20, 10)
DragLimit == 20
MaxEditAnnotations == 4

ItemLeft(it) ==
    LET pts == ItemScenePoints(it)
        xs == [i \in 1..Len(pts) |-> pts[i].x]
    IN  FoldMin(xs, Len(xs))

\* a gesture on empty space: shapes and free texts are drawn from (0,0), the
\* arrow in the margin to the right of the image from (310,0)
GestureAllowed(pos, max) ==
    /\ Room(store[ctrl_set], Needs(tool_state), max)
    /\ \/ pos = Px(0, 0) /\ tool_state.active_tool # "ARROW"
       \/ pos = Px(310, 0) /\ tool_state.active_tool = "ARROW"

\* where the pointer can go while the button is down: to the end of a gesture,
\* or DragDelta away with the grabbed rectangle and the selected texts
MoveTargets ==
    IF ctrl.is_drawing THEN EditReleasePositions(GestureStart)
    ELSE IF /\ grab.item # 0 /\ grab.down = "Left" /\ grab.init = <<>>
            /\ items[grab.item].cls = "rect"
            /\ \A i \in 1..Len(items) :
                  items[i].selected \/ i = grab.item
                     => /\ items[i].cls \in {"rect", "text"}
                        /\ RLt(ItemLeft(items[i]), R(DragLimit))
    THEN {PAdd(grab.press_pos[1], DragDelta)}
    ELSE {}

\* where the button goes up: where the pointer was moved to, or else where a
\* gesture may end, or else where the button went down
ReleaseTargets ==
    IF ev.op = "mouseMoveEvent" THEN {ev.pos[1]}
    ELSE IF ctrl.is_drawing THEN EditReleasePositions(GestureStart)
    ELSE IF grab.press_pos = Nothing THEN {}
    ELSE {grab.press_pos[1]}

\* the Ctrl key is held for a whole click or not at all
ReleaseModifiers == IF ev.op = "mousePressEvent" THEN {ev.modifier} ELSE {FALSE}

\* the style controls are used on a selection
SomethingSelected == SelectedIds(items) # {}

EditReply == [text |-> <<" ", "A">>, ok |-> TRUE]

\* a click or the start of a drag or gesture, a label added by double click
EditPress(max) ==
    \E pos \in EditPositions, modifier \in BOOLEAN, typed \in TypedTexts :
       /\ ~ResizePress(items, pos)
       /\ itemAt(items, pos) = 0 => ~modifier /\ GestureAllowed(pos, max)
       /\ ScenePress(pos, "Left", itemAt(items, pos), modifier, "none", typed)
EditRelease ==
    \E pos \in ReleaseTargets, modifier \in ReleaseModifiers :
       SceneRelease(pos, modifier, EditReply)
EditLabel(max) ==
    \E pos \in EditPositions, typed \in TypedTexts :
       /\ itemAt(items, pos) # 0
       /\ IsShapeItem(items[itemAt(items, pos)])
       /\ Room(store[scene_set[1]], 1, max)
       /\ SceneDoubleClick(pos, itemAt(items, pos), EditReply, typed)

\* rectangles and texts, selected and dragged
NextEdit ==
    \/ SetImage(DrawImage, DrawViewport)
    \/ SelectShapeTool("RECT")
    \/ SelectTextTool
    \/ EditPress(MaxEditAnnotations)
    \/ \E pos \in MoveTargets : SceneMove(pos)
    \/ EditRelease
    \/ EditLabel(MaxEditAnnotations)

\* rectangles, arrows and texts, selected and restyled
MaxStyleAnnotations == 3
NextStyle ==
    \/ SetImage(DrawImage, DrawViewport)
    \/ SelectShapeTool("RECT")
    \/ SelectArrowTool
    \/ EditPress(MaxStyleAnnotations)
    \/ \E pos \in MoveTargets : ctrl.is_drawing /\ SceneMove(pos)
    \/ EditRelease
    \/ EditLabel(MaxStyleAnnotations)
    \/ SomethingSelected /\ OnShapeStrokeColorChanged("Yellow")
    \/ SomethingSelected /\ OnShapeFillColorChanged(NO_FILL_ENTRY)
    \/ SomethingSelected /\ OnArrowColorChanged("Blue")
    \/ SomethingSelected /\ OnTextColorChanged("Blue")
    \/ SomethingSelected /\ OnStrokeWidthChanged(R(3))
    \/ SomethingSelected /\ OnTextSizeChanged(40)

SpecStyle == Init /\ [][NextStyle]_vars

\* rectangles, arrows and texts, selected and deleted
MaxDeleteAnnotations == 4
NextDelete ==
    \/ SetImage(DrawImage, DrawViewport)
    \/ SelectShapeTool("RECT")
    \/ SelectArrowTool
    \/ SelectTextTool
    \/ EditPress(MaxDeleteAnnotations)
    \/ \E pos \in MoveTargets : ctrl.is_drawing /\ SceneMove(pos)
    \/ EditRelease
    \/ EditLabel(MaxDeleteAnnotations)
    \/ DeleteSelected

SpecDelete == Init /\ [][NextDelete]_vars

SpecEdit == Init /\ [][NextEdit]_vars

(***************************************************************************)
(* Claims about deleting, dragging and restyling a selection               *)
(***************************************************************************)
SceneSetNow == store[scene_set[1]]
IdsOf(l) == {l[i].id : i \in 1..Len(l)}

\* the ids a deletion of the selected ids S has to remove: S itself and the
\* texts whose parent_id is a selected shape or arrow
DeletedWith(aset, S) ==
    S \cup {aset.texts[i].id : i \in {j \in 1..Len(aset.texts) :
                aset.texts[j].parent_id \in S \cap (IdsOf(aset.shapes) \cup IdsOf(aset.arrows))}}

Keep(l, D) == SelectSeq(l, LAMBDA a : a.id \notin D)

\* C6: deleting the selection removes exactly the selected annotations and the
\* texts whose parent_id is a selected shape or arrow; every other annotation
\* stays as it was and in its place, so the count drops by the number of those
\* ids (by 3 for a shape with two linked texts, by 1 for a text alone, whose
\* parent stays).
C6_DeleteExactlySelectedAndLinked ==
    [][ev'.op = "delete_selected_annotations"
       => LET D == DeletedWith(SceneSetNow, SelectedIds(items)) IN
          /\ SceneSetNow'.texts = Keep(SceneSetNow.texts, D)
          /\ SceneSetNow'.arrows = Keep(SceneSetNow.arrows, D)
          /\ SceneSetNow'.shapes = Keep(SceneSetNow.shapes, D)
          /\ SceneSetNow'.main_point = SceneSetNow.main_point
          /\ Count(SceneSetNow) - Count(SceneSetNow') = Cardinality(D)]_vars

\* a selected shape with two linked texts was deleted from a set of four: the
\* free text is what is left
C6_Witness ==
    /\ ev.op = "delete_selected_annotations"
    /\ ev.before = 4
    /\ Len(ev.arg[1]) = 1
    /\ Count(SceneSetNow) = 1
    /\ Len(SceneSetNow.texts) = 1
    /\ SceneSetNow.texts[1].parent_id = None

\* the release that ends a drag of the rectangle under the pointer, selected
\* alone, and the distance the pointer went
RectDraggedAlone ==
    /\ ev'.op = "mouseReleaseEvent"
    /\ ev'.path = "sync"
    /\ grab.item # 0
    /\ grab.init # <<>>
    /\ items[grab.item].cls = "rect"
    /\ ShapeIndex(SceneSetNow, items[grab.item].ann) # 0
    /\ SceneSetNow.shapes[ShapeIndex(SceneSetNow, items[grab.item].ann)].shape_type = "RECT"
    /\ SelectedIds(items) = {items[grab.item].ann}
DraggedBy == PSub(ev'.pos[1], ev'.arg[1])
Moved(p, q, d) == norm_to_scene(pixmap_item, q) = PAdd(norm_to_scene(pixmap_item, p), d)

\* C7: when a RECT shape, selected alone, was dragged by (dx, dy), the pass at
\* the release moves its control points by (dx, dy) and the position of every
\* text whose parent_id is the shape's id by (dx, dy); the other texts keep
\* their position.
C7_DraggedRectCarriesLinkedTexts ==
    [][RectDraggedAlone
       => LET id == items[grab.item].ann
              k == ShapeIndex(SceneSetNow, id)
              old == SceneSetNow.shapes[k]
              new == SceneSetNow'.shapes[k]
          IN  /\ Len(SceneSetNow'.shapes) = Len(SceneSetNow.shapes)
              /\ new.id = id
              /\ Len(new.points) = Len(old.points)
              /\ \A i \in 1..Len(old.points) : Moved(old.points[i], new.points[i], DraggedBy)
              /\ Len(SceneSetNow'.texts) = Len(SceneSetNow.texts)
              /\ \A i \in 1..Len(SceneSetNow.texts) :
                    LET t == SceneSetNow.texts[i]
                        u == SceneSetNow'.texts[i]
                    IN  /\ u.id = t.id
                        /\ IF t.parent_id = id
                           THEN Moved(t.position, u.position, DraggedBy)
                           ELSE u.position = t.position]_vars

\* the rectangle drawn from (0,0) to (60,80) was dragged alone by (20,10): its
\* label went from (30,40) to (50,50), the free text stayed at (60,80)
C7_Witness ==
    /\ ev.op = "mouseReleaseEvent"
    /\ ev.path = "sync"
    /\ ev.arg = Some(Px(30, 10))
    /\ ev.pos = Some(Px(50, 20))
    /\ Len(SceneSetNow.shapes) = 1
    /\ SelectedIds(items) = {SceneSetNow.shapes[1].id}
    /\ norm_to_scene(pixmap_item, SceneSetNow.shapes[1].points[1]) = Px(20, 10)
    /\ norm_to_scene(pixmap_item, SceneSetNow.shapes[1].points[2]) = Px(80, 90)
    /\ \E i, j \in 1..Len(SceneSetNow.texts) :
          /\ SceneSetNow.texts[i].parent_id = SceneSetNow.shapes[1].id
          /\ norm_to_scene(pixmap_item, SceneSetNow.texts[i].position) = Px(50, 50)
          /\ SceneSetNow.texts[j].parent_id = None
          /\ norm_to_scene(pixmap_item, SceneSetNow.texts[j].position) = Px(60, 80)

StyleOps ==
    {"on_shape_stroke_color_changed", "on_shape_fill_color_changed",
     "on_arrow_color_changed", "on_text_color_changed", "on_stroke_width_changed",
     "on_text_size_changed"}

\* C8: a style change applied while something is selected leaves the set of
\* selected annotation ids as it was, whether or not the change redraws the
\* scene.
C8_StyleChangeKeepsSelection ==
    [][ev'.op \in StyleOps /\ SelectedIds(items) # {}
       => SelectedIds(items') = SelectedIds(items)]_vars

\* a shape and a text are selected; the stroke width was changed and then the
\* text colour, which redrew the scene: both are still selected
C8_Witness ==
    /\ ev.op = "on_text_color_changed"
    /\ ev.path = "redraw"
    /\ Cardinality(SelectedIds(items)) = 2
    /\ \E k \in 1..Len(SceneSetNow.shapes), i \in 1..Len(SceneSetNow.texts) :
          /\ SelectedIds(items) = {SceneSetNow.shapes[k].id, SceneSetNow.texts[i].id}
          /\ SceneSetNow.shapes[k].stroke_width = R(3)
          /\ SceneSetNow.texts[i].color = "Blue"

(***************************************************************************)
(* Claims about the DATUM_L and TEXT gestures                              *)
(***************************************************************************)
DatumGesture ==
    /\ GestureEnds
    /\ ev'.path = "controller"
    /\ tool_state.active_tool = "SHAPE"
    /\ tool_state.shape_type = "DATUM_L"

\* C11: with the SHAPE tool and kind DATUM_L, every completed left gesture on
\* a loaded image adds exactly one DATUM_L shape whose only control point is
\* the normalized pointer-down position, whatever the distance to the release.
C11_DatumFromAnyGesture ==
    [][DatumGesture
       => LET old == store[ctrl_set]
              new == store'[ctrl_set]
          IN  /\ Len(new.shapes) = Len(old.shapes) + 1
              /\ new.shapes[Len(new.shapes)].shape_type = "DATUM_L"
              /\ new.shapes[Len(new.shapes)].points
                     = <<scene_to_normalized(pixmap_item, GestureA)>>
              /\ new.texts = old.texts
              /\ new.arrows = old.arrows]_vars

\* C11, the part the code keeps: a DATUM_L gesture at least 12 px wide and
\* 12 px high adds that one shape, and a smaller one adds nothing.
C11_DatumFromLargeGesture ==
    [][DatumGesture
       => LET old == store[ctrl_set]
              new == store'[ctrl_set]
          IN  IF RLt(GestureWidth, R(12)) \/ RLt(GestureHeight, R(12))
              THEN store' = store
              ELSE /\ Len(new.shapes) = Len(old.shapes) + 1
                   /\ new.shapes[Len(new.shapes)].shape_type = "DATUM_L"
                   /\ new.shapes[Len(new.shapes)].points
                          = <<scene_to_normalized(pixmap_item, GestureA)>>
                   /\ new.texts = old.texts
                   /\ new.arrows = old.arrows]_vars

\* the controller ended a plain DATUM_L click at (0,0) and the set is empty
C11_Witness ==
    /\ ev.op = "mouseReleaseEvent"
    /\ ev.path = "controller"
    /\ ev.arg = Some(Px(0, 0))
    /\ ev.pos = Some(Px(0, 0))
    /\ tool_state.active_tool = "SHAPE"
    /\ tool_state.shape_type = "DATUM_L"
    /\ Count(store[ctrl_set]) = 0

TextGesture ==
    /\ GestureEnds
    /\ ev'.path = "controller"
    /\ tool_state.active_tool = "TEXT"

\* C12: a TEXT-tool gesture opens the prompt whatever its length; a cancelled,
\* empty or blank answer leaves the annotation set unchanged, and any other
\* answer adds exactly one text without parent at the normalized release point.
C12_TextGesture ==
    [][TextGesture
       => LET old == store[ctrl_set]
              new == store'[ctrl_set]
          IN  /\ ev'.prompt = "text"
              /\ IF Labelled
                 THEN /\ Len(new.texts) = Len(old.texts) + 1
                      /\ SubSeq(new.texts, 1, Len(old.texts)) = old.texts
                      /\ new.texts[Len(new.texts)].parent_id = None
                      /\ new.texts[Len(new.texts)].text = strip(ev'.reply[1].text)
                      /\ new.texts[Len(new.texts)].position
                             = scene_to_normalized(pixmap_item, GestureB)
                      /\ new.arrows = old.arrows
                      /\ new.shapes = old.shapes
                 ELSE store' = store]_vars

\* a plain TEXT click at (0,0) answered with a label: one text at (0,0)
C12_Witness ==
    /\ ev.op = "mouseReleaseEvent"
    /\ ev.path = "controller"
    /\ ev.arg = Some(Px(0, 0))
    /\ ev.pos = Some(Px(0, 0))
    /\ ev.prompt = "text"
    /\ ev.reply = Some([text |-> <<" ", "A">>, ok |-> TRUE])
    /\ tool_state.active_tool = "TEXT"
    /\ Len(store[ctrl_set].texts) = 1
    /\ store[ctrl_set].texts[1].position = scene_to_normalized(pixmap_item, Px(0, 0))

\* a TEXT gesture from (310,0) to (330,80) answered with a blank: nothing added
C12_BlankWitness ==
    /\ ev.op = "mouseReleaseEvent"
    /\ ev.path = "controller"
    /\ ev.arg = Some(Px(310, 0))
    /\ ev.prompt = "text"
    /\ ev.reply = Some([text |-> <<" ">>, ok |-> TRUE])
    /\ Count(store[ctrl_set]) = 0

(***************************************************************************)
(* Claims about the controller's Idle and Drawing states                   *)
(***************************************************************************)
LeftUp == ev'.op = "mouseReleaseEvent" /\ ev'.button = "Left"

\* C16: whenever the controller is Drawing and a left pointer-up reaches the
\* scene, the controller is Idle afterwards, whatever the tool, the selection
\* and the edit state of the items.
C16_LeftUpEndsDrawing ==
    [][(ctrl.is_drawing /\ LeftUp) => ~ctrl'.is_drawing]_vars

\* C16, the part the code keeps: the controller is Idle after every left
\* pointer-up that the scene hands to it.
C16_HandledLeftUpEndsDrawing ==
    [][(ctrl.is_drawing /\ LeftUp /\ ev'.path = "controller")
       => (~ctrl'.is_drawing /\ ctrl'.start_scene_pos = Nothing)]_vars

\* the left button went up after a TEXT gesture from (310,0) to (330,80) made
\* while a selected text was in edit mode: the controller is still Drawing
C16_Witness ==
    /\ ev.op = "mouseReleaseEvent"
    /\ ev.button = "Left"
    /\ ev.path = "editing"
    /\ ev.arg = Some(Px(310, 0))
    /\ ev.pos = Some(Px(330, 80))
    /\ tool_state.active_tool = "TEXT"
    /\ EditingItem(items) # 0
    /\ ctrl.is_drawing

\* gestures with the TEXT and SHAPE tools, edits of a text, "new" (reset_all);
\* both buttons are pressed while no image is loaded
MaxIdleAnnotations == 2
IdleReplies == {[text |-> <<"A">>, ok |-> FALSE], EditReply}
IdleReleasePositions(press) ==
    IF press = Some(Px(310, 0)) THEN {Px(330, 80)} ELSE {Px(0, 0), Px(60, 80)}
\* what an editor holds when it is committed: a letter, or nothing at all
IdleTyped == {<<"A">>, <<>>}
NextIdle ==
    \/ SetImage(DrawImage, DrawViewport)
    \/ SelectShapeTool("RECT")
    \/ SelectTextTool
    \/ \E pos \in PressPositions, typed \in IdleTyped :
          /\ ~ResizePress(items, pos)
          /\ itemAt(items, pos) = 0
                => Room(store[ctrl_set], Needs(tool_state), MaxIdleAnnotations)
          /\ ScenePress(pos, "Left", itemAt(items, pos), FALSE, "none", typed)
    \/ \E pos \in PressPositions, typed \in IdleTyped :
          /\ pixmap_item = Nothing
          /\ ScenePress(pos, "Right", itemAt(items, pos), FALSE, "none", typed)
    \/ \E pos \in IdleReleasePositions(GestureStart) : ctrl.is_drawing /\ SceneMove(pos)
    \/ \E pos \in IdleReleasePositions(GestureStart), reply \in IdleReplies :
          /\ ctrl.is_drawing => Room(store[ctrl_set], Needs(tool_state), MaxIdleAnnotations)
          /\ SceneRelease(pos, FALSE, reply)
    \/ \E pos \in PressPositions, typed \in IdleTyped :
          /\ itemAt(items, pos) # 0
          /\ items[itemAt(items, pos)].cls = "text"
          /\ SceneDoubleClick(pos, itemAt(items, pos), EditReply, typed)
    \/ \E typed \in IdleTyped : CommitEdit(typed)
    \/ Reset

SpecIdle == Init /\ [][NextIdle]_vars

PointerDown == ev'.op = "mousePressEvent"
PointerMoveOrUp == ev'.op \in {"mouseMoveEvent", "mouseReleaseEvent"}

\* C15: the controller enters Drawing only on a left press while an image is
\* loaded; while no image is loaded (initially and after a reset) every
\* pointer-down leaves the controller Idle and no pointer-move or pointer-up
\* that follows adds an annotation.
C15_DrawingOnlyWithImage ==
    [][/\ (~ctrl.is_drawing /\ ctrl'.is_drawing)
           => (PointerDown /\ ev'.button = "Left" /\ pixmap_item # Nothing)
       /\ (pixmap_item = Nothing /\ PointerDown) => ~ctrl'.is_drawing
       /\ (pixmap_item = Nothing /\ PointerMoveOrUp) => store' = store]_vars

\* C15, the part the code keeps: the controller enters Drawing only on a left
\* press while an image is loaded, and while no image is loaded a controller
\* that is Idle stays Idle and the set is not changed.
C15_IdleStaysIdleWithoutImage ==
    [][/\ (~ctrl.is_drawing /\ ctrl'.is_drawing)
           => (PointerDown /\ ev'.button = "Left" /\ pixmap_item # Nothing)
       /\ (pixmap_item = Nothing /\ ~ctrl.is_drawing /\ PointerDown) => ~ctrl'.is_drawing
       /\ (pixmap_item = Nothing /\ ~ctrl.is_drawing /\ PointerMoveOrUp)
             => store' = store]_vars

\* after a reset, with no image loaded, a click with the TEXT tool has added
\* a text to the new set
C15_Witness ==
    /\ pixmap_item = Nothing
    /\ win_set = 2
    /\ ev.op = "mouseReleaseEvent"
    /\ ev.path = "controller"
    /\ Len(store[ctrl_set].texts) = 1

(***************************************************************************)
(* Claims about the texts the model holds                                  *)
(***************************************************************************)
AllTexts == UNION {{st.texts[i] : i \in 1..Len(st.texts)} : st \in {store[k] : k \in DOMAIN store}}

\* C18: whenever no text item is in edit mode, every TextAnnotation of the
\* model has a non-empty text.
C18_NoEmptyTextOutsideEdit ==
    EditingItem(items) = 0 => \A t \in AllTexts : t.text # <<>>

\* C18, the part the code keeps: the steps that create a text (a TEXT or
\* ARROW gesture, a label put on a shape) never store an empty text.
C18_NoEmptyTextCreated ==
    [][(\/ ev'.op = "mouseReleaseEvent" /\ ev'.path = "controller"
        \/ ev'.op = "mouseDoubleClickEvent" /\ ev'.prompt = "shape")
       => \A t \in AllTexts' : t.text = <<>> => t \in AllTexts]_vars

\* an editor emptied by the user was committed: the text is stored empty
C18_Witness ==
    /\ ev.op = "commit_and_stop"
    /\ ev.arg = Some(<<>>)
    /\ EditingItem(items) = 0
    /\ \E t \in AllTexts : t.text = <<>>

(***************************************************************************)
(* Claims about redraws and the text editor                                *)
(***************************************************************************)
MaxMenuAnnotations == 2

\* a rectangle and its label on an image loaded once; clicks of both buttons,
\* the menus of shapes and texts, edits, a style change and the Delete key
NextMenu ==
    \/ pixmap_item = Nothing /\ SetImage(DrawImage, DrawViewport)
    \/ SelectShapeTool("RECT")
    \/ EditPress(MaxMenuAnnotations)
    \/ \E pos \in EditPositions, menu \in {"none", "ungroup"}, typed \in TypedTexts :
          /\ itemAt(items, pos) # 0
          /\ menu = "ungroup" => IsShapeItem(items[itemAt(items, pos)])
          /\ ScenePress(pos, "Right", itemAt(items, pos), FALSE, menu, typed)
    \/ \E pos \in MoveTargets : ctrl.is_drawing /\ SceneMove(pos)
    \/ EditRelease
    \/ EditingItem(items) = 0 /\ EditLabel(MaxMenuAnnotations)
    \/ \E pos \in EditPositions, typed \in TypedTexts :
          /\ itemAt(items, pos) # 0
          /\ items[itemAt(items, pos)].cls = "text"
          /\ SceneDoubleClick(pos, itemAt(items, pos), EditReply, typed)
    \/ \E typed \in TypedTexts : CommitEdit(typed)
    \/ \E chosen \in BOOLEAN, typed \in TypedTexts : TextContextMenu(chosen, typed)
    \/ DeleteSelected
    \/ EditingItem(items) = 0 /\ SomethingSelected /\ OnTextSizeChanged(40)

SpecMenu == Init /\ [][NextMenu]_vars

\* the step ran _commit_and_stop of the open editor: Enter or a lost focus
EditorCommitted ==
    \/ ev'.op = "commit_and_stop"
    \/ /\ ev'.op \in {"mousePressEvent", "mouseDoubleClickEvent", "contextMenuEvent"}
       /\ ev'.arg # Nothing

\* the items were destroyed and made again while one of them was in edit
\* mode: the editor is gone although it did not commit
RedrawnMidEdit == EditingItem(items) # 0 /\ EditingItem(items') = 0 /\ ~EditorCommitted

\* C14: under any sequence of pointer events, style changes, deletions and
\* creation gestures, a full redraw is never executed while some text item is
\* in edit mode, whether or not that item is selected.
C14_NoRedrawMidEdit == [][~RedrawnMidEdit]_vars

SelectedEditor(its) ==
    \E i \in 1..Len(its) : its[i].selected /\ its[i].cls = "text" /\ its[i].editing

\* C14, the part the code keeps: no redraw is executed while a selected text
\* item is in edit mode.
C14_NoRedrawWhileSelectedEdit == [][SelectedEditor(items) => ~RedrawnMidEdit]_vars

\* a right click on a text that was not selected opened its editor, and the
\* release of the button redrew the scene: the editor is gone, nothing was
\* committed
C14_Witness ==
    /\ ev.op = "mouseReleaseEvent"
    /\ ev.button = "Right"
    /\ ev.path = "sync"
    /\ ev.pos = Some(Px(30, 40))
    /\ itemAt(items, Px(30, 40)) # 0
    /\ items[itemAt(items, Px(30, 40))].cls = "text"
    /\ EditingItem(items) = 0

(***************************************************************************)
(* Claims about the links between texts and their parents                  *)
(***************************************************************************)
MaxLinkAnnotations == 2

\* rectangles and arrows with their labels: drawn, labelled, ungrouped from
\* the menu of the shape or of the text, dragged, deleted, and "new"
NextLinks ==
    \/ pixmap_item = Nothing /\ SetImage(DrawImage, DrawViewport)
    \/ SelectShapeTool("RECT")
    \/ SelectArrowTool
    \/ \E pos \in EditPositions, typed \in TypedTexts :
          /\ ~ResizePress(items, pos)
          /\ itemAt(items, pos) = 0 => GestureAllowed(pos, MaxLinkAnnotations)
          /\ ScenePress(pos, "Left", itemAt(items, pos), FALSE, "none", typed)
    \/ \E pos \in EditPositions, typed \in TypedTexts :
          /\ itemAt(items, pos) # 0
          /\ ScenePress(pos, "Right", itemAt(items, pos), FALSE,
                        IF IsShapeItem(items[itemAt(items, pos)]) THEN "ungroup" ELSE "none",
                        typed)
    \/ \E pos \in MoveTargets : SceneMove(pos)
    \/ EditRelease
    \/ EditLabel(MaxLinkAnnotations)
    \/ \E typed \in TypedTexts : TextContextMenu(TRUE, typed)
    \/ DeleteSelected
    \/ Reset

SpecLinks == Init /\ [][NextLinks]_vars

\* the parent link of a text of the set is absent or names an arrow or a
\* shape of the set
Resolves(aset, t) ==
    \/ t.parent_id = None
    \/ ArrowIndex(aset, t.parent_id) # 0
    \/ ShapeIndex(aset, t.parent_id) # 0

\* C13: in every state reachable by creation gestures, double-click
\* labelling, ungrouping, moves, deletions and resets, each text's parent_id
\* is absent or the id of an arrow or a shape of the same set.
C13_NoDanglingParent ==
    \A k \in DOMAIN store :
       /\ \A i \in 1..Len(store[k].texts) : Resolves(store[k], store[k].texts[i])
       /\ store[k].main_point # Nothing => Resolves(store[k], store[k].main_point[1])

\* one annotation was selected and deleted, and its label went with it
C13_Witness ==
    /\ ev.op = "delete_selected_annotations"
    /\ ev.arg # Nothing
    /\ Len(ev.arg[1]) = 1
    /\ ev.before = Count(store[scene_set[1]]) + 2

(***************************************************************************)
(* Claims about the control points of shapes                               *)
(***************************************************************************)
MaxResizeAnnotations == 2
ResizeKinds == {"RECT", "CIRCLE", "ELLIPSE", "TRIANGLE", "POLYGON", "STAR", "DATUM_L"}

\* where the button goes down: (0,0), where every shape is drawn from and the
\* top left corner of a rectangle; (-4,-4) by the top left corner of an
\* ellipse, a triangle or a polygon and (-4,20) by that of a star; (30,40) in
\* the middle
ResizePositions == {Px(0, 0), Px(-4, -4), Px(-4, 20), Px(30, 40)}

\* how far the corner of the rectangle r is pulled: to the middle of r while
\* r is at least twice MIN_SIZE_PX wide and high, and past the opposite corner
\* of a rectangle whose sides are whole numbers (the coordinates of the model
\* stay within 32 bits)
PullLimit == 24
ResizeDeltas(r) ==
    {QPointF(RHalf(RectW(r)), RHalf(RectH(r))) :
        i \in {j \in {1} : ~RLt(RectW(r), R(PullLimit)) /\ ~RLt(RectH(r), R(PullLimit))}}
    \cup {QPointF(RAdd(RectW(r), R(10)), RAdd(RectH(r), R(10))) :
            i \in {j \in {1} : RectW(r)[2] = 1 /\ RectH(r)[2] = 1}}

ResizePressAt ==
    \E pos \in ResizePositions :
       /\ itemAt(items, pos) = 0 => GestureAllowed(pos, MaxResizeAnnotations)
       /\ ScenePress(pos, "Left", itemAt(items, pos), FALSE, "none", <<"A">>)

ResizeMoveTargets ==
    IF ctrl.is_drawing THEN EditReleasePositions(GestureStart)
    ELSE IF grab.item # 0 /\ grab.resize # Nothing
    THEN {PAdd(grab.press_pos[1], d) :
             d \in ResizeDeltas(resize_rect(items[grab.item].cls, grab.resize[1].geom))}
    ELSE IF /\ grab.item # 0 /\ grab.down = "Left" /\ grab.init = <<>>
            /\ items[grab.item].movable
            /\ \A i \in 1..Len(items) :
                  items[i].selected \/ i = grab.item
                     => RLt(ItemLeft(items[i]), R(DragLimit))
    THEN {PAdd(grab.press_pos[1], DragDelta)}
    ELSE {}

\* shapes of every kind, drawn, dragged and resized by a corner
NextResize ==
    \/ pixmap_item = Nothing /\ SetImage(DrawImage, DrawViewport)
    \/ \E k \in ResizeKinds : SelectShapeTool(k)
    \/ ResizePressAt
    \/ \E pos \in ResizeMoveTargets : SceneMove(pos)
    \/ EditRelease

SpecResize == Init /\ [][NextResize]_vars

\* how many control points a shape of the type may have at any time
PointCountFits(shape_type, n) ==
    IF shape_type = "DATUM_L" THEN n = 1
    ELSE IF shape_type \in {"RECT", "ELLIPSE", "CIRCLE"} THEN n = 2
    ELSE IF shape_type \in {"TRIANGLE", "POLYGON", "STAR"} THEN n >= 3
    ELSE TRUE

\* how many control points a new shape of the type has
PointCountNew(shape_type, n) ==
    IF shape_type = "TRIANGLE" THEN n = 3
    ELSE IF shape_type = "POLYGON" THEN n = 4
    ELSE IF shape_type = "STAR" THEN n = 10
    ELSE PointCountFits(shape_type, n)

ShapesFit(aset) ==
    \A k \in 1..Len(aset.shapes) :
       PointCountFits(aset.shapes[k].shape_type, Len(aset.shapes[k].points))

\* a release has added a shape to the controller's set
ShapeCreated ==
    /\ ev'.op = "mouseReleaseEvent"
    /\ ev'.path = "controller"
    /\ Len(store'[ctrl_set].shapes) = Len(store[ctrl_set].shapes) + 1

\* C17: after creations, moves and corner resizes a DATUM_L shape has exactly
\* one control point, a RECT, ELLIPSE or CIRCLE exactly two and a TRIANGLE,
\* POLYGON or STAR at least three; a new TRIANGLE has 3, a new POLYGON 4 and a
\* new STAR 10
C17_PointCounts ==
    /\ [](\A i \in DOMAIN store : ShapesFit(store[i]))
    /\ [][ShapeCreated
          => PointCountNew(store'[ctrl_set].shapes[Len(store'[ctrl_set].shapes)].shape_type,
                 Len(store'[ctrl_set].shapes[Len(store'[ctrl_set].shapes)].points))]_vars

\* a star and a rectangle were drawn and the star, pulled by its top left
\* corner to its middle, was written back with its ten points
C17_Witness ==
    /\ ev.op = "mouseReleaseEvent"
    /\ ev.path = "sync"
    /\ ev.arg = Some(Px(-4, 20))
    /\ ev.pos # ev.arg
    /\ Len(SceneSetNow.shapes) = 2
    /\ \E k \in 1..2 :
          /\ SceneSetNow.shapes[k].shape_type = "STAR"
          /\ SelectedIds(items) = {SceneSetNow.shapes[k].id}
          /\ Len(SceneSetNow.shapes[k].points) = 10
          /\ RSub(SceneSetNow.shapes[k].points[6].y, SceneSetNow.shapes[k].points[1].y)
                = RHalf(RSub(shape_points_in("STAR", R(0), <<3, 10>>, R(0), <<4, 5>>)[6].y,
                             shape_points_in("STAR", R(0), <<3, 10>>, R(0), <<4, 5>>)[1].y))
    /\ \E k \in 1..2 : SceneSetNow.shapes[k].shape_type = "RECT"

(***************************************************************************)
(* Claims about dragged arrows                                             *)
(***************************************************************************)
MaxArrowAnnotations == 2

\* where the button goes down: (310,0), where an arrow is drawn from and where
\* it can be grabbed afterwards, and (320,80), on the label at its other end
ArrowPositions == {Px(310, 0), Px(320, 80)}

ArrowPressAt ==
    \E pos \in ArrowPositions, modifier \in BOOLEAN :
       /\ itemAt(items, pos) = 0 => ~modifier /\ GestureAllowed(pos, MaxArrowAnnotations)
       /\ ScenePress(pos, "Left", itemAt(items, pos), modifier, "none", <<"A">>)

\* to the end of a gesture, or DragDelta away with whatever is dragged; nothing
\* is dragged on whose left edge is beyond ArrowDragLimit
ArrowDragLimit == 315
ArrowMoveTargets ==
    IF ctrl.is_drawing THEN EditReleasePositions(GestureStart)
    ELSE IF /\ grab.item # 0 /\ grab.down = "Left" /\ grab.init = <<>>
            /\ items[grab.item].movable /\ ~items[grab.item].editing
            /\ \A i \in 1..Len(items) :
                  items[i].selected \/ i = grab.item
                     => RLt(ItemLeft(items[i]), R(ArrowDragLimit))
    THEN {PAdd(grab.press_pos[1], DragDelta)}
    ELSE {}

\* arrows with their labels, selected, dragged, unlinked and deleted
NextArrow ==
    \/ pixmap_item = Nothing /\ SetImage(DrawImage, DrawViewport)
    \/ SelectArrowTool
    \/ ArrowPressAt
    \/ \E pos \in ArrowPositions :
          /\ itemAt(items, pos) # 0
          /\ ScenePress(pos, "Right", itemAt(items, pos), FALSE, "none", <<"A">>)
    \/ \E pos \in ArrowMoveTargets : SceneMove(pos)
    \/ EditRelease
    \/ TextContextMenu(TRUE, <<"A">>)
    \/ DeleteSelected

SpecArrow == Init /\ [][NextArrow]_vars

\* the items a release hands to the synchronization pass
ItemsAtSync == default_release(items, grab, ev'.pos[1], ev'.modifier)

\* a release runs the synchronization pass with item i a moved, selected arrow
\* item of the arrow with index k
ArrowSynced(i, k) ==
    /\ ev'.op = "mouseReleaseEvent"
    /\ ev'.path = "sync"
    /\ i \in 1..Len(items)
    /\ ArrowMoved(ItemsAtSync[i])
    /\ k = ArrowIndex(SceneSetNow, items[i].ann)
    /\ k # 0

LinkedTexts(aset, id) == {j \in 1..Len(aset.texts) : aset.texts[j].parent_id = id}

\* C19: in a synchronization pass the start and the end of every selected
\* arrow whose item was moved by a non-zero offset are translated by exactly
\* that offset, every text linked to the arrow then has its position at the
\* arrow's new end, and no arrow item keeps an offset
C19_ArrowTranslated ==
    [][\A i \in 1..Len(items), k \in 1..Len(SceneSetNow.arrows) :
          ArrowSynced(i, k)
          => /\ SceneSetNow'.arrows[k].start
                   = translate_norm(pixmap_item, SceneSetNow.arrows[k].start,
                                    items[i].pos.x, items[i].pos.y)
             /\ SceneSetNow'.arrows[k].end
                   = translate_norm(pixmap_item, SceneSetNow.arrows[k].end,
                                    items[i].pos.x, items[i].pos.y)
             /\ \A j \in LinkedTexts(SceneSetNow', SceneSetNow.arrows[k].id) :
                   SceneSetNow'.texts[j].position = SceneSetNow'.arrows[k].end
             /\ \A n \in 1..Len(items') :
                   items'[n].cls = "arrow" => items'[n].pos = QPointF(R(0), R(0))]_vars

\* the set as the text rule of the pass leaves it, before the arrow rule
AfterTextRule == sync_text_annotations_from_items(pixmap_item, SceneSetNow, ItemsAtSync)

\* C19, the part the code keeps: the start is translated by the offset, the
\* end too when no text is linked to the arrow, a linked text is put where
\* the offset takes the end that the text rule of the same pass left, and no
\* arrow item keeps an offset
C19_ArrowStartTranslated ==
    [][\A i \in 1..Len(items), k \in 1..Len(SceneSetNow.arrows) :
          ArrowSynced(i, k)
          => /\ SceneSetNow'.arrows[k].start
                   = translate_norm(pixmap_item, SceneSetNow.arrows[k].start,
                                    items[i].pos.x, items[i].pos.y)
             /\ LinkedTexts(SceneSetNow, SceneSetNow.arrows[k].id) = {}
                   => SceneSetNow'.arrows[k].end
                         = translate_norm(pixmap_item, SceneSetNow.arrows[k].end,
                                          items[i].pos.x, items[i].pos.y)
             /\ \A j \in LinkedTexts(SceneSetNow', SceneSetNow.arrows[k].id) :
                   SceneSetNow'.texts[j].position
                      = translate_norm(pixmap_item, AfterTextRule.arrows[k].end,
                                       items[i].pos.x, items[i].pos.y)
             /\ \A n \in 1..Len(items') :
                   items'[n].cls = "arrow" => items'[n].pos = QPointF(R(0), R(0))]_vars

\* an arrow with its label was grabbed at (310,0) and dragged alone by (20,10)
C19_Witness ==
    /\ ev.op = "mouseReleaseEvent"
    /\ ev.path = "sync"
    /\ ev.arg = Some(Px(310, 0))
    /\ ev.pos = Some(Px(330, 10))
    /\ Len(SceneSetNow.arrows) = 1
    /\ SelectedIds(items) = {SceneSetNow.arrows[1].id}
    /\ LinkedTexts(SceneSetNow, SceneSetNow.arrows[1].id) = {1}
    /\ norm_to_scene(pixmap_item, SceneSetNow.arrows[1].start) = Px(330, 10)
    /\ norm_to_scene(pixmap_item, SceneSetNow.texts[1].position).y = R(66)
    /\ norm_to_scene(pixmap_item, SceneSetNow.arrows[1].end).y = R(53)

(***************************************************************************)
(* Claims about dragged labels                                             *)
(***************************************************************************)
MaxLabelAnnotations == 3
LabelKinds == {"RECT", "TRIANGLE", "DATUM_L"}
LabelPositions == {Px(0, 0), Px(30, 10), Px(30, 40)}

LabelPressAt ==
    \E pos \in LabelPositions :
       /\ ~ResizePress(items, pos)
       /\ itemAt(items, pos) = 0 => GestureAllowed(pos, MaxLabelAnnotations)
       /\ ScenePress(pos, "Left", itemAt(items, pos), FALSE, "none", <<"A">>)

\* to the end of a gesture, or DragDelta away with the text that was grabbed
LabelMoveTargets ==
    IF ctrl.is_drawing THEN EditReleasePositions(GestureStart)
    ELSE IF /\ grab.item # 0 /\ grab.down = "Left" /\ grab.init = <<>>
            /\ items[grab.item].cls = "text" /\ ~items[grab.item].editing
            /\ RLt(ItemLeft(items[grab.item]), R(DragLimit))
    THEN {PAdd(grab.press_pos[1], DragDelta)}
    ELSE {}

\* the items of a set as the scene draws them, the item of the text id
\* selected and dragged by d
DraggedText(pix, aset, id, d) ==
    [i \in 1..Len(redraw_annotations(pix, Some(aset))) |->
        IF redraw_annotations(pix, Some(aset))[i].ann = id
        THEN [redraw_annotations(pix, Some(aset))[i] EXCEPT
                 !.pos = PAdd(@, d), !.selected = TRUE]
        ELSE redraw_annotations(pix, Some(aset))[i]]

\* the synchronization pass on the items its of a sample set, the text id
\* among them dragged by d
SyncSampleOn(aset, its, id, d) ==
    /\ its # <<>>
    /\ probe' = Some([x |-> aset,
                      y |-> sync_annotations_from_items(pixmap_item, aset, its),
                      kind |-> id])
    /\ ev' = [Event("sync_annotations_from_items") EXCEPT !.arg = Some(d)]
    /\ UNCHANGED <<store, win_set, ctrl_set, scene_set, pixmap_item, image_rect,
                   scene_rect, tool_state, ctrl, items, grab>>

\* the pass on a sample set of at most MaxLabelAnnotations annotations one of
\* whose texts was dragged, on the image just loaded
SyncSample ==
    \E aset \in SampleSets, d \in {DragDelta, Px(0, 10)} :
       \E n \in 1..Len(aset.texts) :
          /\ Count(aset) <= MaxLabelAnnotations
          /\ ev.op = "set_image"
          /\ grab.down = None
          /\ probe = Nothing
          /\ pixmap_item # Nothing
          /\ SyncSampleOn(aset, DraggedText(pixmap_item, aset, aset.texts[n].id, d),
                          aset.texts[n].id, d)

\* shapes with their labels, the labels dragged; the pass on sample sets
NextLabel ==
    \/ pixmap_item = Nothing /\ SetImage(DrawImage, DrawViewport)
    \/ \E k \in LabelKinds : probe = Nothing /\ SelectShapeTool(k)
    \/ probe = Nothing /\ LabelPressAt
    \/ \E pos \in LabelMoveTargets : SceneMove(pos)
    \/ EditRelease
    \/ probe = Nothing /\ EditLabel(MaxLabelAnnotations)
    \/ SyncSample

SpecLabel == Init /\ [][NextLabel]_vars

\* the release that ends a drag of the text under the pointer, selected alone
\* and linked to the shape with index ks
TextDraggedAlone(ks) ==
    /\ ev'.op = "mouseReleaseEvent"
    /\ ev'.path = "sync"
    /\ grab.item # 0
    /\ grab.init # <<>>
    /\ items[grab.item].cls = "text"
    /\ SelectedIds(items) = {items[grab.item].ann}
    /\ DraggedBy # QPointF(R(0), R(0))
    /\ TextOf(SceneSetNow, items[grab.item].ann) # Nothing
    /\ ks = ShapeIndex(SceneSetNow, TextOf(SceneSetNow, items[grab.item].ann)[1].parent_id)
    /\ ks # 0

\* the pass on the sample set probe.x dragged a text whose parent_id names
\* neither an arrow nor a shape of the set
DanglingDragged ==
    /\ probe # Nothing
    /\ probe[1].kind \in {probe[1].x.texts[n].id : n \in 1..Len(probe[1].x.texts)}
    /\ ~Resolves(probe[1].x, TextOf(probe[1].x, probe[1].kind)[1])

\* C20: after a pass in which a text linked to a shape was dragged alone by a
\* non-zero delta, the text's position is its new centre and every control
\* point of the parent shape is translated by the same delta; a dragged text
\* whose parent_id names no annotation only has its own position updated
C20_LabelCarriesShape ==
    /\ [][\A ks \in 1..Len(SceneSetNow.shapes) :
             TextDraggedAlone(ks)
             => /\ TextOf(SceneSetNow', items[grab.item].ann) # Nothing
                /\ TextOf(SceneSetNow', items[grab.item].ann)[1].position
                      = scene_to_normalized(pixmap_item,
                            RectCenter(ItemSceneRect(items[grab.item])))
                /\ Moved(TextOf(SceneSetNow, items[grab.item].ann)[1].position,
                         TextOf(SceneSetNow', items[grab.item].ann)[1].position, DraggedBy)
                /\ Len(SceneSetNow'.shapes) = Len(SceneSetNow.shapes)
                /\ Len(SceneSetNow'.shapes[ks].points) = Len(SceneSetNow.shapes[ks].points)
                /\ \A i \in 1..Len(SceneSetNow.shapes[ks].points) :
                      Moved(SceneSetNow.shapes[ks].points[i],
                            SceneSetNow'.shapes[ks].points[i], DraggedBy)]_vars
    /\ [](DanglingDragged
          => probe[1].y
                = PutText(sync_annotations_from_items(pixmap_item, probe[1].x,
                              redraw_annotations(pixmap_item, Some(probe[1].x))),
                          probe[1].kind,
                          [TextOf(probe[1].x, probe[1].kind)[1] EXCEPT
                              !.position = translate_norm(pixmap_item, @,
                                               ev.arg[1].x, ev.arg[1].y)]))

\* the label of a triangle drawn from (0,0) to (60,80) was dragged alone from
\* (30,40) by (20,10) and took the triangle along
C20_Witness ==
    /\ ev.op = "mouseReleaseEvent"
    /\ ev.path = "sync"
    /\ ev.arg = Some(Px(30, 40))
    /\ ev.pos = Some(Px(50, 50))
    /\ Len(SceneSetNow.shapes) = 1
    /\ SceneSetNow.shapes[1].shape_type = "TRIANGLE"
    /\ Len(SceneSetNow.texts) = 1
    /\ SceneSetNow.texts[1].parent_id = SceneSetNow.shapes[1].id
    /\ SelectedIds(items) = {SceneSetNow.texts[1].id}
    /\ norm_to_scene(pixmap_item, SceneSetNow.texts[1].position) = Px(50, 50)
    /\ norm_to_scene(pixmap_item, SceneSetNow.shapes[1].points[1]) = Px(50, 10)
    /\ norm_to_scene(pixmap_item, SceneSetNow.shapes[1].points[2]) = Px(80, 90)
    /\ norm_to_scene(pixmap_item, SceneSetNow.shapes[1].points[3]) = Px(20, 90)

(***************************************************************************)
(* Claims about the synchronization pass as a whole                        *)
(***************************************************************************)
\* a release outside a gesture and outside an edit: the pass runs
SyncPass ==
    /\ ev'.op = "mouseReleaseEvent"
    /\ ev'.path = "sync"

\* C21: every pass a release runs outside Drawing applies the text rule, then
\* the shape rule, then the arrow rule, each once, to the items as the release
\* left them, and the scene is redrawn from the set the three rules leave.
C21_TextShapesArrowsThenRedraw ==
    [][SyncPass
       => /\ SceneSetNow'
               = sync_arrow_annotations_from_items(pixmap_item,
                     sync_shape_annotations_from_items(pixmap_item,
                         sync_text_annotations_from_items(pixmap_item, SceneSetNow,
                                                          ItemsAtSync),
                         ItemsAtSync),
                     ItemsAtSync).aset
          /\ items' = Reselect(redraw_annotations(pixmap_item, Some(SceneSetNow')),
                               SelectedIds(ItemsAtSync))]_vars

\* an arrow from (310,0) and its label at (320,80), both selected, were dragged
\* by (20,10): the text rule ran before the arrow rule, which put the label on
\* the arrow's end at (346,76) (the other way round it would be at (340,90))
C21_Witness ==
    /\ ev.op = "mouseReleaseEvent"
    /\ ev.path = "sync"
    /\ ev.arg = Some(Px(310, 0))
    /\ ev.pos = Some(Px(330, 10))
    /\ Len(SceneSetNow.arrows) = 1
    /\ Len(SceneSetNow.texts) = 1
    /\ SelectedIds(items) = {SceneSetNow.arrows[1].id, SceneSetNow.texts[1].id}
    /\ SceneSetNow.texts[1].parent_id = SceneSetNow.arrows[1].id
    /\ norm_to_scene(pixmap_item, SceneSetNow.arrows[1].start) = Px(330, 10)
    /\ norm_to_scene(pixmap_item, SceneSetNow.texts[1].position) = Px(346, 76)
    /\ \A i \in 1..Len(items) : items[i].pos = redraw_annotations(pixmap_item,
                                                      Some(SceneSetNow))[i].pos

(***************************************************************************)
(* Claims about the full redraw                                            *)
(***************************************************************************)
IsTextItem(it) == it.cls = "text"
IsArrowItem(it) == it.cls = "arrow"
\* the items _draw_shape makes: the box, ellipse or polygon, or the four parts
\* of a DATUM_L
IsDrawnShape(it) == it.cls \in {"rect", "ellipse", "polygon", "line", "head"}

\* the z-order of the annotation an item was drawn for
ZIndexOf(aset, it) ==
    IF IsTextItem(it) THEN TextOf(aset, it.ann)[1].z_index
    ELSE IF IsArrowItem(it) THEN aset.arrows[ArrowIndex(aset, it.ann)].z_index
    ELSE aset.shapes[ShapeIndex(aset, it.ann)].z_index

\* the item was drawn for an annotation of the set
DrawnFor(aset, it) ==
    IF IsTextItem(it) THEN TextOf(aset, it.ann) # Nothing
    ELSE IF IsArrowItem(it) THEN ArrowIndex(aset, it.ann) # 0
    ELSE ShapeIndex(aset, it.ann) # 0

SameZOrder(i, j) ==
    /\ DrawnFor(SceneSetNow, items[i])
    /\ DrawnFor(SceneSetNow, items[j])
    /\ ZIndexOf(SceneSetNow, items[i]) = ZIndexOf(SceneSetNow, items[j])

\* C22: among the items of annotations with equal z-order, a text item stacks
\* above a shape item and a shape item (the parts of a DATUM_L included) stacks
\* above an arrow item.
C22_TextAboveShapesAboveArrows ==
    \A i, j \in 1..Len(items) :
       SameZOrder(i, j)
          => /\ IsTextItem(items[i]) /\ IsDrawnShape(items[j]) => items[i].z > items[j].z
             /\ IsDrawnShape(items[i]) /\ IsArrowItem(items[j]) => items[i].z > items[j].z

\* C22, what the code keeps: among the items of annotations with equal
\* z-order, a text item stacks above every shape item and every arrow item.
C22_TextAboveShapesAndArrows ==
    \A i, j \in 1..Len(items) :
       SameZOrder(i, j) /\ IsTextItem(items[i])
                        /\ (IsDrawnShape(items[j]) \/ IsArrowItem(items[j]))
          => items[i].z > items[j].z

\* a text, a rectangle and an arrow of equal z-order are drawn: the text is on
\* top and the arrow lies above the rectangle
C22_Witness ==
    \E i, j, k \in 1..Len(items) :
       /\ IsTextItem(items[i]) /\ items[j].cls = "rect" /\ IsArrowItem(items[k])
       /\ SameZOrder(i, j) /\ SameZOrder(j, k)
       /\ items[i].z > items[k].z
       /\ items[k].z > items[j].z

\* the visible annotations of a set, the main point among them
VisibleIds(aset) ==
    {aset.texts[i].id : i \in {j \in 1..Len(aset.texts) : aset.texts[j].visible}}
    \cup {aset.arrows[i].id : i \in {j \in 1..Len(aset.arrows) : aset.arrows[j].visible}}
    \cup {aset.shapes[i].id : i \in {j \in 1..Len(aset.shapes) : aset.shapes[j].visible}}
    \cup (IF aset.main_point # Nothing /\ aset.main_point[1].visible
          THEN {aset.main_point[1].id} ELSE {})

\* the items of a scene that carry the annotation id
ItemsFor(its, id) == {i \in 1..Len(its) : its[i].ann = id}

Redrawn == pixmap_item # Nothing /\ scene_set # Nothing

\* C23: with an image and a set present, the scene holds exactly one item for
\* every visible annotation of the set and no item for anything else.
C23_OneItemPerVisibleAnnotation ==
    Redrawn
       => /\ \A id \in VisibleIds(SceneSetNow) : Cardinality(ItemsFor(items, id)) = 1
          /\ \A i \in 1..Len(items) : items[i].ann \in VisibleIds(SceneSetNow)

\* C23, what the code keeps: every item belongs to a visible annotation of the
\* set, every visible annotation has its items, one for a text, an arrow and
\* every shape but DATUM_L, four for a DATUM_L.
C23_ItemsOfVisibleAnnotations ==
    Redrawn
       => /\ \A i \in 1..Len(items) : items[i].ann \in VisibleIds(SceneSetNow)
          /\ \A id \in VisibleIds(SceneSetNow) :
                Cardinality(ItemsFor(items, id))
                   = IF /\ ShapeIndex(SceneSetNow, id) # 0
                        /\ SceneSetNow.shapes[ShapeIndex(SceneSetNow, id)].shape_type
                              = "DATUM_L"
                     THEN 4 ELSE 1

\* a DATUM_L and its label are drawn: four items carry the DATUM_L, one the text
C23_Witness ==
    /\ Redrawn
    /\ Len(SceneSetNow.shapes) = 1
    /\ SceneSetNow.shapes[1].shape_type = "DATUM_L"
    /\ Len(SceneSetNow.texts) = 1
    /\ Cardinality(ItemsFor(items, SceneSetNow.shapes[1].id)) = 4
    /\ Cardinality(ItemsFor(items, SceneSetNow.texts[1].id)) = 1
    /\ Len(items) = 5

(***************************************************************************)
(* Claims about the corner resize                                          *)
(***************************************************************************)
MaxCornerAnnotations == 1
CornerKinds == {"RECT", "ELLIPSE"}

\* where the button goes down: the four corners of a rectangle or an ellipse
\* drawn from (0,0) to (60,80), and its middle
CornerPositions == {Px(0, 0), Px(60, 0), Px(0, 80), Px(60, 80), Px(30, 40)}

\* how far a corner is pulled: outwards, inwards, and past the opposite corner
\* in one direction or in both
CornerDeltas == {Px(-70, -90), Px(70, 90), Px(-5, 10), Px(20, -100), Px(-56, 4)}

CornerPressAt ==
    \E pos \in CornerPositions :
       /\ itemAt(items, pos) = 0 => GestureAllowed(pos, MaxCornerAnnotations)
       /\ ScenePress(pos, "Left", itemAt(items, pos), FALSE, "none", <<"A">>)

\* to the end of a gesture, or with the corner that was grabbed
CornerMoveTargets ==
    IF ctrl.is_drawing THEN EditReleasePositions(GestureStart)
    ELSE IF grab.item # 0 /\ grab.resize # Nothing
    THEN {PAdd(grab.press_pos[1], d) : d \in CornerDeltas}
    ELSE {}

\* a rectangle or an ellipse, drawn, selected and resized by its corners
NextCorner ==
    \/ pixmap_item = Nothing /\ SetImage(DrawImage, DrawViewport)
    \/ \E k \in CornerKinds : SelectShapeTool(k)
    \/ CornerPressAt
    \/ \E pos \in CornerMoveTargets : SceneMove(pos)
    \/ EditRelease

SpecCorner == Init /\ [][NextCorner]_vars

\* the pointer moves while a corner of a rectangle or ellipse item is held
CornerDragged ==
    /\ ev'.op = "mouseMoveEvent"
    /\ grab.item # 0
    /\ grab.resize # Nothing
    /\ items[grab.item].cls \in {"rect", "ellipse"}

\* the corner opposite to `corner` is where it was
OppositeKept(r0, r1, corner) ==
    /\ corner \in {"TL", "BL"} => r1.r = r0.r
    /\ corner \in {"TR", "BR"} => r1.l = r0.l
    /\ corner \in {"TL", "TR"} => r1.b = r0.b
    /\ corner \in {"BL", "BR"} => r1.t = r0.t

\* C24: wherever the pointer goes while a corner of a selected rectangle or
\* ellipse item is held, past the opposite corner included, the item's
\* rectangle keeps the opposite corner where it was at the press and is at
\* least MIN_SIZE_PX wide and high.
C24_OppositeCornerAndFloor ==
    [][CornerDragged
       => /\ OppositeKept(resize_rect(items[grab.item].cls, grab.resize[1].geom),
                          resize_rect(items[grab.item].cls, items'[grab.item].geom),
                          grab.resize[1].corner)
          /\ ~RLt(RectW(resize_rect(items[grab.item].cls, items'[grab.item].geom)),
                  R(MIN_SIZE_PX))
          /\ ~RLt(RectH(resize_rect(items[grab.item].cls, items'[grab.item].geom)),
                  R(MIN_SIZE_PX))
          /\ items'[grab.item].pos = items[grab.item].pos]_vars

\* the bottom right corner of the ellipse drawn from (0,0) to (60,80) was
\* pulled from (60,80) to (-10,-10), past the top left corner: the ellipse is
\* 12 wide and 12 high and still begins at (0,0)
C24_Witness ==
    /\ ev.op = "mouseMoveEvent"
    /\ ev.pos = Some(Px(-10, -10))
    /\ grab.item # 0
    /\ grab.resize # Nothing
    /\ grab.resize[1].corner = "BR"
    /\ grab.resize[1].geom = <<Px(0, 0), Px(60, 80)>>
    /\ items[grab.item].cls = "ellipse"
    /\ items[grab.item].geom = <<Px(0, 0), Px(12, 12)>>

(***************************************************************************)
(* Claims about the controller's preview item                              *)
(***************************************************************************)
PreviewTools == {"ARROW", "SHAPE"}

\* a step in which the controller comes to hold a preview item
PreviewAppears == ctrl.preview_item = Nothing /\ ctrl'.preview_item # Nothing

\* a step in which the controller leaves Drawing
LeavesDrawing == ctrl.is_drawing /\ ~ctrl'.is_drawing

C26_OneSharedSet == scene_set = Some(ctrl_set) /\ ctrl_set = win_set

\* after a reset replaced the set, a gesture handled by the controller added
\* a rectangle, and the scene has drawn it from its own set
C26_Witness ==
    /\ win_set = 2
    /\ ev.op = "mouseReleaseEvent"
    /\ ev.path = "controller"
    /\ Len(store[ctrl_set].shapes) = 1
    /\ ItemsFor(items, store[scene_set[1]].shapes[1].id) # {}

(***************************************************************************)
(* Claims about a release after which nothing was moved                    *)
(***************************************************************************)
MaxClickAnnotations == 3
ClickKinds == {"RECT", "CIRCLE"}

\* rectangles and circles drawn from (0,0) to (60,80), arrows with their
\* label drawn from (310,0), and plain clicks: the pointer never moves while
\* an item is grabbed
NextClick ==
    \/ pixmap_item = Nothing /\ SetImage(DrawImage, DrawViewport)
    \/ \E k \in ClickKinds : SelectShapeTool(k)
    \/ SelectArrowTool
    \/ EditPress(MaxClickAnnotations)
    \/ EditRelease

SpecClick == Init /\ [][NextClick]_vars

\* what an annotation set stores about where its annotations are
StoredGeometry(aset) ==
    [texts |-> [i \in 1..Len(aset.texts) |-> aset.texts[i].position],
     arrows |-> [i \in 1..Len(aset.arrows) |-> <<aset.arrows[i].start, aset.arrows[i].end>>],
     shapes |-> [i \in 1..Len(aset.shapes) |-> aset.shapes[i].points]]

\* no item of its was moved or resized since the redraw of the scene's set
Untouched(its) ==
    LET drawn == redraw_annotations(pixmap_item, Some(SceneSetNow))
    IN  /\ Len(its) = Len(drawn)
        /\ \A i \in 1..Len(its) : /\ its[i].ann = drawn[i].ann
                                  /\ its[i].pos = drawn[i].pos
                                  /\ its[i].geom = drawn[i].geom

\* a release that runs the synchronization pass over untouched items
PlainClick ==
    /\ ev'.op = "mouseReleaseEvent"
    /\ ev'.path = "sync"
    /\ Untouched(items)
    /\ Untouched(ItemsAtSync)

\* C27: a pointer-up that runs the synchronization pass when no item was
\* moved or resized since the last redraw leaves the stored geometry of every
\* annotation unchanged: text positions, arrow starts and ends, and the
\* control points of every shape, a CIRCLE included.
C27_PlainClickKeepsGeometry ==
    [][PlainClick => StoredGeometry(SceneSetNow') = StoredGeometry(SceneSetNow)]_vars

\* C27, the part the code keeps: such a release leaves every text position,
\* every arrow start, the end of every arrow without a linked text and the
\* control points of every shape other than a CIRCLE unchanged.
C27_PlainClickKeepsTextsAndBoxes ==
    [][PlainClick
       => /\ StoredGeometry(SceneSetNow').texts = StoredGeometry(SceneSetNow).texts
          /\ Len(SceneSetNow'.arrows) = Len(SceneSetNow.arrows)
          /\ \A k \in 1..Len(SceneSetNow.arrows) :
                /\ SceneSetNow'.arrows[k].start = SceneSetNow.arrows[k].start
                /\ LinkedTexts(SceneSetNow, SceneSetNow.arrows[k].id) = {}
                      => SceneSetNow'.arrows[k].end = SceneSetNow.arrows[k].end
          /\ Len(SceneSetNow'.shapes) = Len(SceneSetNow.shapes)
          /\ \A k \in 1..Len(SceneSetNow.shapes) :
                SceneSetNow.shapes[k].shape_type # "CIRCLE"
                   => SceneSetNow'.shapes[k].points = SceneSetNow.shapes[k].points]_vars

\* a CIRCLE drawn from (0,0) to (60,80) was clicked at (30,40) and nothing was
\* dragged: its control points now span (0,0) to (60,60)
C27_Witness ==
    /\ ev.op = "mouseReleaseEvent"
    /\ ev.path = "sync"
    /\ ev.arg = Some(Px(30, 40))
    /\ ev.pos = Some(Px(30, 40))
    /\ Len(SceneSetNow.shapes) = 1
    /\ SceneSetNow.shapes[1].shape_type = "CIRCLE"
    /\ SelectedIds(items) = {SceneSetNow.shapes[1].id}
    /\ norm_to_scene(pixmap_item, SceneSetNow.shapes[1].points[1]) = Px(0, 0)
    /\ norm_to_scene(pixmap_item, SceneSetNow.shapes[1].points[2]) = Px(60, 60)

(***************************************************************************)
(* Claims about a parent dragged together with its label                   *)
(***************************************************************************)
\* the release that ends a drag of the RECT with index ks and of the text
\* with index kt linked to it, the two of them selected and nothing else
RectDraggedWithLabel(ks, kt) ==
    /\ ev'.op = "mouseReleaseEvent"
    /\ ev'.path = "sync"
    /\ grab.item # 0
    /\ grab.init # <<>>
    /\ DraggedBy # QPointF(R(0), R(0))
    /\ SceneSetNow.shapes[ks].shape_type = "RECT"
    /\ SceneSetNow.texts[kt].parent_id = SceneSetNow.shapes[ks].id
    /\ SelectedIds(items) = {SceneSetNow.shapes[ks].id, SceneSetNow.texts[kt].id}
    /\ \A i \in 1..Len(items) :
          items[i].selected => items[i].pos = PAdd(grab.init[i], DraggedBy)

ArrowDraggedWithLabel(ka, kt) ==
    /\ ev'.op = "mouseReleaseEvent"
    /\ ev'.path = "sync"
    /\ grab.item # 0
    /\ grab.init # <<>>
    /\ DraggedBy # QPointF(R(0), R(0))
    /\ SceneSetNow.texts[kt].parent_id = SceneSetNow.arrows[ka].id
    /\ SelectedIds(items) = {SceneSetNow.arrows[ka].id, SceneSetNow.texts[kt].id}
    /\ \A i \in 1..Len(items) :
          items[i].selected => items[i].pos = PAdd(grab.init[i], DraggedBy)

\* C29: when an arrow and the text linked to it, both selected, were dragged
\* together by one delta, the pass at the release translates the arrow's start
\* and the text's position by exactly that delta, once.
C29_ArrowAndLabelMovedOnce ==
    [][\A ka \in 1..Len(SceneSetNow.arrows), kt \in 1..Len(SceneSetNow.texts) :
          ArrowDraggedWithLabel(ka, kt)
          => /\ Len(SceneSetNow'.arrows) = Len(SceneSetNow.arrows)
             /\ Len(SceneSetNow'.texts) = Len(SceneSetNow.texts)
             /\ Moved(SceneSetNow.arrows[ka].start, SceneSetNow'.arrows[ka].start,
                      DraggedBy)
             /\ Moved(SceneSetNow.texts[kt].position, SceneSetNow'.texts[kt].position,
                      DraggedBy)]_vars

\* C29, the part the code keeps: the arrow's start is translated by the delta
\* once, and the text is put where the delta takes the end that the text rule
\* of the same pass snapped to the moved text's box.
C29_ArrowStartMovedOnce ==
    [][\A ka \in 1..Len(SceneSetNow.arrows), kt \in 1..Len(SceneSetNow.texts) :
          ArrowDraggedWithLabel(ka, kt)
          => /\ Len(SceneSetNow'.arrows) = Len(SceneSetNow.arrows)
             /\ Len(SceneSetNow'.texts) = Len(SceneSetNow.texts)
             /\ Moved(SceneSetNow.arrows[ka].start, SceneSetNow'.arrows[ka].start,
                      DraggedBy)
             /\ Moved(AfterTextRule.arrows[ka].end, SceneSetNow'.texts[kt].position,
                      DraggedBy)]_vars

\* an arrow from (310,0) and its label at (320,80), both selected, were grabbed
\* at the label and dragged by (20,10): the start is at (330,10), the label is
\* not at (340,90)
C29_Witness ==
    /\ ev.op = "mouseReleaseEvent"
    /\ ev.path = "sync"
    /\ ev.arg = Some(Px(320, 80))
    /\ ev.pos = Some(Px(340, 90))
    /\ Len(SceneSetNow.arrows) = 1
    /\ Len(SceneSetNow.texts) = 1
    /\ SceneSetNow.texts[1].parent_id = SceneSetNow.arrows[1].id
    /\ SelectedIds(items) = {SceneSetNow.arrows[1].id, SceneSetNow.texts[1].id}
    /\ norm_to_scene(pixmap_item, SceneSetNow.arrows[1].start) = Px(330, 10)
    /\ norm_to_scene(pixmap_item, SceneSetNow.texts[1].position) # Px(340, 90)

(***************************************************************************)
(* Claims about the other labels of a shape whose label was dragged        *)
(***************************************************************************)
\* how far the pass of this step took the first control point of shape ks
ShapeDelta(ks) ==
    PSub(norm_to_scene(pixmap_item, SceneSetNow'.shapes[ks].points[1]),
         norm_to_scene(pixmap_item, SceneSetNow.shapes[ks].points[1]))

\* the index of the dragged text in the set
DraggedTextIndex == TextIndex(SceneSetNow, items[grab.item].ann)

\* C30: when one text linked to a shape was dragged alone by a delta, the pass
\* at the release translates every text linked to that shape, the dragged one
\* and the others, by the same delta as the shape's control points.
C30_SiblingsFollowShape ==
    [][\A ks \in 1..Len(SceneSetNow.shapes) :
          (TextDraggedAlone(ks) /\ SceneSetNow.shapes[ks].points # <<>>)
          => /\ Len(SceneSetNow'.texts) = Len(SceneSetNow.texts)
             /\ Len(SceneSetNow'.shapes) = Len(SceneSetNow.shapes)
             /\ SceneSetNow'.shapes[ks].points # <<>>
             /\ \A j \in LinkedTexts(SceneSetNow, SceneSetNow.shapes[ks].id) :
                   Moved(SceneSetNow.texts[j].position, SceneSetNow'.texts[j].position,
                         ShapeDelta(ks))]_vars

\* C30, the part the code keeps: the dragged text is translated by the same
\* delta as the shape's control points; the other texts linked to the shape
\* keep the position they had.
C30_DraggedLabelFollowsShape ==
    [][\A ks \in 1..Len(SceneSetNow.shapes) :
          (TextDraggedAlone(ks) /\ SceneSetNow.shapes[ks].points # <<>>)
          => /\ Len(SceneSetNow'.texts) = Len(SceneSetNow.texts)
             /\ Len(SceneSetNow'.shapes) = Len(SceneSetNow.shapes)
             /\ SceneSetNow'.shapes[ks].points # <<>>
             /\ ShapeDelta(ks) = DraggedBy
             /\ \A j \in LinkedTexts(SceneSetNow, SceneSetNow.shapes[ks].id) :
                   IF j = DraggedTextIndex
                   THEN Moved(SceneSetNow.texts[j].position,
                              SceneSetNow'.texts[j].position, ShapeDelta(ks))
                   ELSE SceneSetNow'.texts[j].position = SceneSetNow.texts[j].position]_vars

\* a shape drawn from (0,0) to (60,80) has two labels at its centre (30,40);
\* the upper one was dragged alone by (20,10) and took the shape along, the
\* other one is still at (30,40)
C30_Witness ==
    /\ ev.op = "mouseReleaseEvent"
    /\ ev.path = "sync"
    /\ ev.arg = Some(Px(30, 40))
    /\ ev.pos = Some(Px(50, 50))
    /\ Len(SceneSetNow.shapes) = 1
    /\ Len(SceneSetNow.texts) = 2
    /\ \A j \in 1..2 : SceneSetNow.texts[j].parent_id = SceneSetNow.shapes[1].id
    /\ \E j \in 1..2 :
          /\ SelectedIds(items) = {SceneSetNow.texts[j].id}
          /\ norm_to_scene(pixmap_item, SceneSetNow.texts[j].position) = Px(50, 50)
          /\ norm_to_scene(pixmap_item, SceneSetNow.texts[3 - j].position) = Px(30, 40)
    /\ BoxCenter([i \in 1..Len(SceneSetNow.shapes[1].points) |->
                     norm_to_scene(pixmap_item, SceneSetNow.shapes[1].points[i])])
          = Px(50, 50)

====
